---- MODULE Spec2Model ----
(***************************************************************************)
(* The alias merge-and-normalize pipeline of unifill: the four source      *)
(* parsers, the alias merge of both packages (glyph_catcher and            *)
(* unifill_datafetch), the block filter and the master snapshot.           *)
(*                                                                         *)
(* Strings are sequences of one-character strings, so that strip, lower,   *)
(* upper, split and the hexadecimal conversions are computed character by  *)
(* character as the Python code computes them.  A character (char_obj, a   *)
(* cp attribute) is its Unicode scalar value, a natural number.            *)
(***************************************************************************)
EXTENDS Integers, Sequences, FiniteSets, TLC

(***************************************************************************)
(* The empty dictionary.                                                   *)
(***************************************************************************)
EmptyMap == [k \in {} |-> <<>>]

(***************************************************************************)
(* str methods.                                                            *)
(***************************************************************************)
Whitespace == {" ", "\t", "\n"}

UpperLetters == <<"A", "B", "C", "D", "E", "F", "G", "H", "I", "J", "K", "L", "M", "N", "O", "P", "Q", "R", "S", "T", "U", "V", "W", "X", "Y", "Z">>
LowerLetters == <<"a", "b", "c", "d", "e", "f", "g", "h", "i", "j", "k", "l", "m", "n", "o", "p", "q", "r", "s", "t", "u", "v", "w", "x", "y", "z">>

IndexOf(c, seq) == CHOOSE i \in 1..Len(seq) : seq[i] = c
InSeq(c, seq) == \E i \in 1..Len(seq) : seq[i] = c

lower_char(c) == IF InSeq(c, UpperLetters) THEN LowerLetters[IndexOf(c, UpperLetters)] ELSE c
upper_char(c) == IF InSeq(c, LowerLetters) THEN UpperLetters[IndexOf(c, LowerLetters)] ELSE c

lower(s) == [i \in 1..Len(s) |-> lower_char(s[i])]
upper(s) == [i \in 1..Len(s) |-> upper_char(s[i])]

RECURSIVE lstrip(_)
lstrip(s) == IF s # <<>> /\ Head(s) \in Whitespace THEN lstrip(Tail(s)) ELSE s

RECURSIVE rstrip(_)
rstrip(s) == IF s # <<>> /\ s[Len(s)] \in Whitespace THEN rstrip(SubSeq(s, 1, Len(s) - 1)) ELSE s

strip(s) == rstrip(lstrip(s))

startswith(s, prefix) == Len(s) >= Len(prefix) /\ SubSeq(s, 1, Len(prefix)) = prefix
endswith(s, suffix) == Len(s) >= Len(suffix) /\ SubSeq(s, Len(s) - Len(suffix) + 1, Len(s)) = suffix
contains(s, c) == \E i \in 1..Len(s) : s[i] = c

\* s.split(sep): the list of the fields between the occurrences of the
\* one-character separator sep; always at least one field.
RECURSIVE split(_, _)
split(s, sep) ==
    IF ~contains(s, sep) THEN <<s>>
    ELSE LET i == CHOOSE j \in 1..Len(s) : s[j] = sep /\ \A k \in 1..(j - 1) : s[k] # sep
         IN  <<SubSeq(s, 1, i - 1)>> \o split(SubSeq(s, i + 1, Len(s)), sep)

\* s.split(sep, 1): at most one split, at the first occurrence of sep.
split1(s, sep) ==
    IF ~contains(s, sep) THEN <<s>>
    ELSE LET i == CHOOSE j \in 1..Len(s) : s[j] = sep /\ \A k \in 1..(j - 1) : s[k] # sep
         IN  <<SubSeq(s, 1, i - 1), SubSeq(s, i + 1, Len(s))>>

(***************************************************************************)
(* Hexadecimal: int(s, 16), chr, ord and format(n, 'X').                   *)
(***************************************************************************)
HexUpper == <<"0", "1", "2", "3", "4", "5", "6", "7", "8", "9", "A", "B", "C", "D", "E", "F">>

IsHexDigit(c) == InSeq(upper_char(c), HexUpper)
HexDigitValue(c) == IndexOf(upper_char(c), HexUpper) - 1

\* int(s, 16) raises ValueError on an empty string or a non-hex character.
IsHex(s) == s # <<>> /\ \A i \in 1..Len(s) : IsHexDigit(s[i])

RECURSIVE HexValue(_)
HexValue(s) == IF s = <<>> THEN 0 ELSE 16 * HexValue(SubSeq(s, 1, Len(s) - 1)) + HexDigitValue(s[Len(s)])

\* chr(n) raises ValueError outside range(0x110000).
ChrOk(n) == n >= 0 /\ n < 1114112

\* format(n, 'X'): uppercase hexadecimal digits, no padding.
RECURSIVE FormatX(_)
FormatX(n) == IF n < 16 THEN <<HexUpper[n + 1]>> ELSE FormatX(n \div 16) \o <<HexUpper[(n % 16) + 1]>>

\* chr(n) raises OverflowError, not ValueError, when n does not fit a C int
\* (n >= 2^31): more than eight significant hex digits, or eight of which the
\* first is 8 or more.  Decided on the digits, without computing the value.
RECURSIVE StripZeros(_)
StripZeros(s) == IF s # <<>> /\ Head(s) = "0" THEN StripZeros(Tail(s)) ELSE s

ChrOverflows(s) ==
    LET d == StripZeros(s)
    IN  Len(d) > 8 \/ (Len(d) = 8 /\ HexDigitValue(d[1]) >= 8)

(***************************************************************************)
(* dict and defaultdict(list).  A dictionary is a function from its keys;  *)
(* Python compares dictionaries by content, whatever the insertion order.  *)
(***************************************************************************)
Put(m, k, v) == [x \in (DOMAIN m) \cup {k} |-> IF x = k THEN v ELSE m[x]]

Get(m, k, default) == IF k \in DOMAIN m THEN m[k] ELSE default

\* d[k].append(v) on a defaultdict(list)
AppendTo(m, k, v) == Put(m, k, Append(Get(m, k, <<>>), v))

\* d[k].extend(list) on a defaultdict(list): the key is created even when
\* the list is empty.
ExtendAt(m, k, list) == Put(m, k, Get(m, k, <<>>) \o list)

Restrict(m, keys) == [x \in keys |-> m[x]]

RECURSIVE KeysOf(_)
KeysOf(S) == IF S = {} THEN <<>> ELSE LET k == CHOOSE x \in S : TRUE IN <<k>> \o KeysOf(S \ {k})

(***************************************************************************)
(* UNICODE_BLOCKS and get_unicode_block.                                   *)
(***************************************************************************)
UNICODE_BLOCKS == <<
    [start |-> 0, end |-> 128, name |-> "Basic Latin"],  \* 0x0000, 0x0080
    [start |-> 128, end |-> 256, name |-> "Latin-1 Supplement"],  \* 0x0080, 0x0100
    [start |-> 256, end |-> 384, name |-> "Latin Extended-A"],  \* 0x0100, 0x0180
    [start |-> 384, end |-> 592, name |-> "Latin Extended-B"],  \* 0x0180, 0x0250
    [start |-> 592, end |-> 688, name |-> "IPA Extensions"],  \* 0x0250, 0x02B0
    [start |-> 688, end |-> 768, name |-> "Spacing Modifier Letters"],  \* 0x02B0, 0x0300
    [start |-> 768, end |-> 880, name |-> "Combining Diacritical Marks"],  \* 0x0300, 0x0370
    [start |-> 880, end |-> 1024, name |-> "Greek and Coptic"],  \* 0x0370, 0x0400
    [start |-> 1024, end |-> 1280, name |-> "Cyrillic"],  \* 0x0400, 0x0500
    [start |-> 8352, end |-> 8400, name |-> "Currency Symbols"],  \* 0x20A0, 0x20D0
    [start |-> 8400, end |-> 8448, name |-> "Combining Diacriticals for Symbols"],  \* 0x20D0, 0x2100
    [start |-> 8448, end |-> 8528, name |-> "Letterlike Symbols"],  \* 0x2100, 0x2150
    [start |-> 8528, end |-> 8592, name |-> "Number Forms"],  \* 0x2150, 0x2190
    [start |-> 8592, end |-> 8704, name |-> "Arrows"],  \* 0x2190, 0x2200
    [start |-> 8704, end |-> 8960, name |-> "Mathematical Operators"],  \* 0x2200, 0x2300
    [start |-> 8960, end |-> 9216, name |-> "Miscellaneous Technical"],  \* 0x2300, 0x2400
    [start |-> 9216, end |-> 9280, name |-> "Control Pictures"],  \* 0x2400, 0x2440
    [start |-> 9312, end |-> 9472, name |-> "Enclosed Alphanumerics"],  \* 0x2460, 0x2500
    [start |-> 9472, end |-> 9600, name |-> "Box Drawing"],  \* 0x2500, 0x2580
    [start |-> 9600, end |-> 9632, name |-> "Block Elements"],  \* 0x2580, 0x25A0
    [start |-> 9632, end |-> 9728, name |-> "Geometric Shapes"],  \* 0x25A0, 0x2600
    [start |-> 9728, end |-> 9984, name |-> "Miscellaneous Symbols"],  \* 0x2600, 0x2700
    [start |-> 9984, end |-> 10176, name |-> "Dingbats"],  \* 0x2700, 0x27C0
    [start |-> 10176, end |-> 10224, name |-> "Misc Mathematical Symbols-A"],  \* 0x27C0, 0x27F0
    [start |-> 10224, end |-> 10240, name |-> "Supplemental Arrows-A"],  \* 0x27F0, 0x2800
    [start |-> 10496, end |-> 10624, name |-> "Supplemental Arrows-B"],  \* 0x2900, 0x2980
    [start |-> 10624, end |-> 10752, name |-> "Misc Mathematical Symbols-B"],  \* 0x2980, 0x2A00
    [start |-> 10752, end |-> 11008, name |-> "Supplemental Math Operators"],  \* 0x2A00, 0x2B00
    [start |-> 11008, end |-> 11264, name |-> "Misc Symbols and Arrows"],  \* 0x2B00, 0x2C00
    [start |-> 64256, end |-> 64336, name |-> "Alphabetic Presentation Forms"],  \* 0xFB00, 0xFB50
    [start |-> 65024, end |-> 65040, name |-> "Variation Selectors"],  \* 0xFE00, 0xFE10
    [start |-> 65040, end |-> 65056, name |-> "Vertical Forms"],  \* 0xFE10, 0xFE20
    [start |-> 65056, end |-> 65072, name |-> "Combining Half Marks"],  \* 0xFE20, 0xFE30
    [start |-> 65280, end |-> 65520, name |-> "Halfwidth and Fullwidth Forms"],  \* 0xFF00, 0xFFF0
    [start |-> 65856, end |-> 65936, name |-> "Ancient Greek Numbers"],  \* 0x10140, 0x10190
    [start |-> 65936, end |-> 66000, name |-> "Ancient Symbols"],  \* 0x10190, 0x101D0
    [start |-> 119040, end |-> 119296, name |-> "Musical Symbols"],  \* 0x1D100, 0x1D200
    [start |-> 119296, end |-> 119376, name |-> "Ancient Greek Musical Notation"],  \* 0x1D200, 0x1D250
    [start |-> 119808, end |-> 120832, name |-> "Mathematical Alphanumeric Symbols"],  \* 0x1D400, 0x1D800
    [start |-> 126464, end |-> 126720, name |-> "Arabic Mathematical Alphabetic Symbols"],  \* 0x1EE00, 0x1EF00
    [start |-> 127744, end |-> 128512, name |-> "Misc Symbols and Pictographs"],  \* 0x1F300, 0x1F600
    [start |-> 128512, end |-> 128592, name |-> "Emoticons"],  \* 0x1F600, 0x1F650
    [start |-> 128592, end |-> 128640, name |-> "Ornamental Dingbats"],  \* 0x1F650, 0x1F680
    [start |-> 128640, end |-> 128768, name |-> "Transport and Map Symbols"],  \* 0x1F680, 0x1F700
    [start |-> 128896, end |-> 129024, name |-> "Geometric Shapes Extended"],  \* 0x1F780, 0x1F800
    [start |-> 129024, end |-> 129280, name |-> "Supplemental Arrows-C"],  \* 0x1F800, 0x1F900
    [start |-> 129280, end |-> 129536, name |-> "Supplemental Symbols and Pictographs"]   \* 0x1F900, 0x1FA00
>>

\* A lookup whose intervals include their end.
get_unicode_block_closed(code_point) ==
    IF \E i \in 1..Len(UNICODE_BLOCKS) :
           code_point >= UNICODE_BLOCKS[i].start /\ code_point <= UNICODE_BLOCKS[i].end
    THEN UNICODE_BLOCKS[CHOOSE i \in 1..Len(UNICODE_BLOCKS) :
                            /\ code_point >= UNICODE_BLOCKS[i].start
                            /\ code_point <= UNICODE_BLOCKS[i].end
                            /\ \A j \in 1..(i - 1) :
                                   ~(code_point >= UNICODE_BLOCKS[j].start /\ code_point <= UNICODE_BLOCKS[j].end)].name
    ELSE "Unknown Block"

get_unicode_block(code_point) ==
    IF \E i \in 1..Len(UNICODE_BLOCKS) :
           code_point >= UNICODE_BLOCKS[i].start /\ code_point < UNICODE_BLOCKS[i].end
    THEN UNICODE_BLOCKS[CHOOSE i \in 1..Len(UNICODE_BLOCKS) :
                            /\ code_point >= UNICODE_BLOCKS[i].start
                            /\ code_point < UNICODE_BLOCKS[i].end
                            /\ \A j \in 1..(i - 1) :
                                   ~(code_point >= UNICODE_BLOCKS[j].start /\ code_point < UNICODE_BLOCKS[j].end)].name
    ELSE "Unknown Block"

(***************************************************************************)
(* The source files.  A text file is [exists, lines]; a line is the text   *)
(* of the line without its newline (every parser strips the line first;    *)
(* the only test of the unstripped line is startswith('\t')).              *)
(***************************************************************************)
(***************************************************************************)
(* parse_unicode_data (glyph_catcher).                                     *)
(***************************************************************************)
IsRangeMarker(name) ==
    \/ startswith(name, <<"<">>) /\ endswith(name, <<",", " ", "F", "i", "r", "s", "t", ">">>)
    \/ startswith(name, <<"<">>) /\ endswith(name, <<",", " ", "L", "a", "s", "t", ">">>)

\* Range markers treated as records.
reaches_chr_on_markers(line) == Len(split(strip(line), ";")) >= 3

\* The line reaches chr(int(code_point_hex, 16)).
ReachesChr(line) ==
    LET fields == split(strip(line), ";")
    IN  Len(fields) >= 3 /\ ~IsRangeMarker(fields[2])

\* One iteration of the loop over the lines: the dictionary after the line.
parse_unicode_data_line(data, line) ==
    LET fields == split(strip(line), ";")
        code_point_hex == fields[1]
    IN  IF ~ReachesChr(line) THEN data
        ELSE IF ~IsHex(code_point_hex) \/ ~ChrOk(HexValue(code_point_hex)) THEN data
        ELSE Put(data, code_point_hex,
                 [name |-> fields[2], category |-> fields[3],
                  char_obj |-> HexValue(code_point_hex),
                  block |-> get_unicode_block(HexValue(code_point_hex))])

RECURSIVE parse_unicode_data_lines(_, _)
parse_unicode_data_lines(data, lines) ==
    IF lines = <<>> THEN data
    ELSE parse_unicode_data_lines(parse_unicode_data_line(data, Head(lines)), Tail(lines))

\* FileNotFoundError and every other exception (chr's OverflowError) end in
\* "return {}".
parse_unicode_data(file) ==
    IF ~file.exists THEN EmptyMap
    ELSE IF \E i \in 1..Len(file.lines) :
                /\ ReachesChr(file.lines[i])
                /\ IsHex(split(strip(file.lines[i]), ";")[1])
                /\ ChrOverflows(split(strip(file.lines[i]), ";")[1])
         THEN EmptyMap
    ELSE parse_unicode_data_lines(EmptyMap, file.lines)

(***************************************************************************)
(* parse_name_aliases.                                                     *)
(***************************************************************************)
\* A parser that lowercases the alias text.
name_aliases_line_lowercased(aliases_data, raw) ==
    LET line == strip(raw)
        fields == split(line, ";")
    IN  IF line = <<>> \/ startswith(line, <<"#">>) THEN aliases_data
        ELSE IF Len(fields) >= 2 THEN AppendTo(aliases_data, fields[1], lower(fields[2]))
        ELSE aliases_data

parse_name_aliases_line(aliases_data, raw) ==
    LET line == strip(raw)
        fields == split(line, ";")
    IN  IF line = <<>> \/ startswith(line, <<"#">>) THEN aliases_data
        ELSE IF Len(fields) >= 2 THEN AppendTo(aliases_data, fields[1], fields[2])
        ELSE aliases_data

RECURSIVE parse_name_aliases_lines(_, _)
parse_name_aliases_lines(aliases_data, lines) ==
    IF lines = <<>> THEN aliases_data
    ELSE parse_name_aliases_lines(parse_name_aliases_line(aliases_data, Head(lines)), Tail(lines))

parse_name_aliases(file) ==
    IF ~file.exists THEN EmptyMap ELSE parse_name_aliases_lines(EmptyMap, file.lines)

(***************************************************************************)
(* parse_names_list.  The loop state is [cur, has, out]: current_code_point *)
(* (has = FALSE when it is None) and informative_aliases.                  *)
(***************************************************************************)
NoteMaxLen == 50

\* A parser that keeps the code point over an unindented line that is no header.
names_list_line_keeps_code_point(st, original_line) ==
    LET line == strip(original_line)
        parts == split1(line, "\t")
        truthy == st.has /\ st.cur # <<>>
        text == strip(Tail(lstrip(line)))
    IN  IF line = <<>> \/ startswith(line, <<"@">>) \/ startswith(line, <<";">>) THEN st
        ELSE IF ~startswith(original_line, <<"\t">>) THEN
            IF Len(parts) = 2
            THEN [st EXCEPT !.has = TRUE, !.cur = strip(parts[1])]
            ELSE st
        ELSE IF truthy /\ contains(line, "=") /\ startswith(lstrip(line), <<"=">>) THEN
            [st EXCEPT !.out = AppendTo(st.out, upper(st.cur), text)]
        ELSE IF truthy /\ contains(line, "*") /\ startswith(lstrip(line), <<"*">>) THEN
            IF Len(text) < NoteMaxLen /\ ~contains(text, "(") /\ ~contains(text, ")")
            THEN [st EXCEPT !.out = AppendTo(st.out, upper(st.cur), text)]
            ELSE st
        ELSE st

\* A parser that admits a note of 50 characters.
names_list_line_admits_50(st, original_line) ==
    LET line == strip(original_line)
        parts == split1(line, "\t")
        truthy == st.has /\ st.cur # <<>>
        text == strip(Tail(lstrip(line)))
    IN  IF line = <<>> \/ startswith(line, <<"@">>) \/ startswith(line, <<";">>) THEN st
        ELSE IF ~startswith(original_line, <<"\t">>) THEN
            IF Len(parts) = 2
            THEN [st EXCEPT !.has = TRUE, !.cur = strip(parts[1])]
            ELSE [st EXCEPT !.has = FALSE, !.cur = <<>>]
        ELSE IF truthy /\ contains(line, "=") /\ startswith(lstrip(line), <<"=">>) THEN
            [st EXCEPT !.out = AppendTo(st.out, upper(st.cur), text)]
        ELSE IF truthy /\ contains(line, "*") /\ startswith(lstrip(line), <<"*">>) THEN
            IF Len(text) <= NoteMaxLen /\ ~contains(text, "(") /\ ~contains(text, ")")
            THEN [st EXCEPT !.out = AppendTo(st.out, upper(st.cur), text)]
            ELSE st
        ELSE st

parse_names_list_line(st, original_line) ==
    LET line == strip(original_line)
        parts == split1(line, "\t")
        truthy == st.has /\ st.cur # <<>>
        text == strip(Tail(lstrip(line)))
    IN  IF line = <<>> \/ startswith(line, <<"@">>) \/ startswith(line, <<";">>) THEN st
        ELSE IF ~startswith(original_line, <<"\t">>) THEN
            IF Len(parts) = 2
            THEN [st EXCEPT !.has = TRUE, !.cur = strip(parts[1])]
            ELSE [st EXCEPT !.has = FALSE, !.cur = <<>>]
        ELSE IF truthy /\ contains(line, "=") /\ startswith(lstrip(line), <<"=">>) THEN
            [st EXCEPT !.out = AppendTo(st.out, upper(st.cur), text)]
        ELSE IF truthy /\ contains(line, "*") /\ startswith(lstrip(line), <<"*">>) THEN
            IF Len(text) < NoteMaxLen /\ ~contains(text, "(") /\ ~contains(text, ")")
            THEN [st EXCEPT !.out = AppendTo(st.out, upper(st.cur), text)]
            ELSE st
        ELSE st

RECURSIVE parse_names_list_lines(_, _)
parse_names_list_lines(st, lines) ==
    IF lines = <<>> THEN st
    ELSE parse_names_list_lines(parse_names_list_line(st, Head(lines)), Tail(lines))

parse_names_list(file) ==
    IF ~file.exists THEN EmptyMap
    ELSE parse_names_list_lines([cur |-> <<>>, has |-> FALSE, out |-> EmptyMap], file.lines).out

(***************************************************************************)
(* parse_cldr_annotations.  The document is [exists, annotations]; an      *)
(* annotation element is [has_type, has_cp, cp, text]: cp the characters   *)
(* of the cp attribute, text the element's text (<<>> when it has none:    *)
(* None and '' are both falsy).                                            *)
(***************************************************************************)
\* char[0] on an empty cp raises IndexError.
CldrRaises(annotation) == ~annotation.has_type /\ annotation.has_cp /\ annotation.cp = <<>>

StripAll(segments) == [i \in 1..Len(segments) |-> strip(segments[i])]

parse_cldr_annotation(cldr_annotations, annotation) ==
    IF annotation.has_type THEN cldr_annotations
    ELSE IF ~annotation.has_cp THEN cldr_annotations
    ELSE LET code_point_hex == FormatX(annotation.cp[1])
         IN  IF annotation.text # <<>>
             THEN ExtendAt(cldr_annotations, code_point_hex, StripAll(split(annotation.text, "|")))
             ELSE cldr_annotations

RECURSIVE parse_cldr_annotation_list(_, _)
parse_cldr_annotation_list(cldr_annotations, annotations) ==
    IF annotations = <<>> THEN cldr_annotations
    ELSE parse_cldr_annotation_list(parse_cldr_annotation(cldr_annotations, Head(annotations)),
                                    Tail(annotations))

parse_cldr_annotations(doc) ==
    IF ~doc.exists THEN EmptyMap
    ELSE IF \E i \in 1..Len(doc.annotations) : CldrRaises(doc.annotations[i]) THEN EmptyMap
    ELSE parse_cldr_annotation_list(EmptyMap, doc.annotations)

(***************************************************************************)
(* process_data_files of glyph_catcher: the merge of the three alias maps. *)
(***************************************************************************)
\* "for code_point, aliases in source.items(): target[key].extend(aliases)",
\* key being code_point.upper() for the informative source.  The keys the
\* parsers produce are distinct after upper(), so the traversal order of the
\* dictionary does not show in the result.
RECURSIVE ExtendAll(_, _, _, _)
ExtendAll(target, source, keys, uppercase) ==
    IF keys = <<>> THEN target
    ELSE LET code_point == Head(keys)
             key == IF uppercase THEN upper(code_point) ELSE code_point
         IN  ExtendAll(ExtendAt(target, key, source[code_point]), source, Tail(keys), uppercase)

AddAliases(target, source, uppercase) == ExtendAll(target, source, KeysOf(DOMAIN source), uppercase)

gc_merge_swapped(formal, informative, cldr) ==
    AddAliases(AddAliases(AddAliases(EmptyMap, informative, TRUE), formal, FALSE), cldr, FALSE)

\* The CLDR annotations added only to the code points that already have an
\* alias list.
gc_merge_known_keys(formal, informative, cldr) ==
    LET merged == AddAliases(AddAliases(EmptyMap, formal, FALSE), informative, TRUE)
    IN  AddAliases(merged, Restrict(cldr, DOMAIN cldr \cap DOMAIN merged), FALSE)

\* A merge in which the formal list of a code point replaces the others.
gc_merge_formal_wins(formal, informative, cldr) ==
    LET merged == AddAliases(AddAliases(AddAliases(EmptyMap, formal, FALSE),
                                        informative, TRUE), cldr, FALSE)
    IN  [c \in DOMAIN merged |-> IF c \in DOMAIN formal THEN formal[c] ELSE merged[c]]

gc_merge(formal, informative, cldr) ==
    AddAliases(AddAliases(AddAliases(EmptyMap, formal, FALSE), informative, TRUE), cldr, FALSE)

(***************************************************************************)
(* unifill_datafetch: the parsers return None instead of {} on failure,    *)
(* the character records carry no block, and merge_aliases takes an        *)
(* optional CLDR map.  An optional value is [isNone, val].                 *)
(***************************************************************************)
NoneValue == [isNone |-> TRUE, val |-> EmptyMap]
Some(v) == [isNone |-> FALSE, val |-> v]
Truthy(opt) == ~opt.isNone /\ opt.val # EmptyMap

ud_parse_unicode_data(file) ==
    IF ~file.exists THEN NoneValue
    ELSE IF \E i \in 1..Len(file.lines) :
                /\ ReachesChr(file.lines[i])
                /\ IsHex(split(strip(file.lines[i]), ";")[1])
                /\ ChrOverflows(split(strip(file.lines[i]), ";")[1])
         THEN NoneValue
    ELSE LET data == parse_unicode_data_lines(EmptyMap, file.lines)
         IN  Some([k \in DOMAIN data |->
                      [name |-> data[k].name, category |-> data[k].category,
                       char_obj |-> data[k].char_obj]])

\* An empty mapping instead of None for a missing file.
ud_parse_name_aliases_empty(file) ==
    IF ~file.exists THEN Some(EmptyMap) ELSE Some(parse_name_aliases_lines(EmptyMap, file.lines))

ud_parse_name_aliases(file) ==
    IF ~file.exists THEN NoneValue ELSE Some(parse_name_aliases_lines(EmptyMap, file.lines))

ud_parse_names_list(file) ==
    IF ~file.exists THEN NoneValue
    ELSE Some(parse_names_list_lines([cur |-> <<>>, has |-> FALSE, out |-> EmptyMap], file.lines).out)

ud_parse_cldr_annotations(doc) ==
    IF ~doc.exists THEN NoneValue
    ELSE IF \E i \in 1..Len(doc.annotations) : CldrRaises(doc.annotations[i]) THEN NoneValue
    ELSE Some(parse_cldr_annotation_list(EmptyMap, doc.annotations))

merge_aliases_early_return(formal_aliases, informative_aliases, cldr_annotations) ==
    IF cldr_annotations.isNone THEN AddAliases(EmptyMap, formal_aliases, FALSE)
    ELSE AddAliases(AddAliases(AddAliases(EmptyMap, formal_aliases, FALSE),
                               informative_aliases, TRUE), cldr_annotations.val, FALSE)

merge_aliases(formal_aliases, informative_aliases, cldr_annotations) ==
    LET merged_aliases == AddAliases(AddAliases(EmptyMap, formal_aliases, FALSE),
                                     informative_aliases, TRUE)
    IN  IF Truthy(cldr_annotations)
        THEN AddAliases(merged_aliases, cldr_annotations.val, FALSE)
        ELSE merged_aliases

(***************************************************************************)
(* filter_by_unicode_blocks.  blocks is [isNone, list].                    *)
(***************************************************************************)
InList(x, list) == \E i \in 1..Len(list) : list[i] = x

KeptCodePoints(unicode_data, blocks) ==
    {code_point \in DOMAIN unicode_data :
        /\ "block" \in DOMAIN unicode_data[code_point]
        /\ InList(unicode_data[code_point].block, blocks.list)}

filter_no_all(unicode_data, aliases_data, blocks) ==
    IF blocks.isNone \/ blocks.list = <<>>
    THEN [unicode_data |-> unicode_data, aliases_data |-> aliases_data]
    ELSE [unicode_data |-> Restrict(unicode_data, KeptCodePoints(unicode_data, blocks)),
          aliases_data |-> Restrict(aliases_data,
                                    KeptCodePoints(unicode_data, blocks) \cap DOMAIN aliases_data)]

filter_default_entry(unicode_data, aliases_data, blocks) ==
    IF blocks.isNone \/ blocks.list = <<>> \/ InList("all", blocks.list)
    THEN [unicode_data |-> unicode_data, aliases_data |-> aliases_data]
    ELSE [unicode_data |-> Restrict(unicode_data, KeptCodePoints(unicode_data, blocks)),
          aliases_data |-> [code_point \in KeptCodePoints(unicode_data, blocks) |->
                               Get(aliases_data, code_point, <<>>)]]

filter_by_unicode_blocks(unicode_data, aliases_data, blocks) ==
    IF blocks.isNone \/ blocks.list = <<>>
    THEN [unicode_data |-> unicode_data, aliases_data |-> aliases_data]
    ELSE IF InList("all", blocks.list)
    THEN [unicode_data |-> unicode_data, aliases_data |-> aliases_data]
    ELSE [unicode_data |-> Restrict(unicode_data, KeptCodePoints(unicode_data, blocks)),
          aliases_data |-> Restrict(aliases_data,
                                    KeptCodePoints(unicode_data, blocks) \cap DOMAIN aliases_data)]

(***************************************************************************)
(* filter_by_dataset and the dataset configuration.  The configuration is  *)
(* [yaml_available, readable, has_datasets, datasets]: whether PyYAML is   *)
(* installed, whether config.yaml opens and parses, whether the document   *)
(* has a 'datasets' entry, and that entry, a map from names to block       *)
(* lists.                                                                  *)
(***************************************************************************)
DATASET_EVERYDAY == "every-day"
DATASET_COMPLETE == "complete"

default_config ==
    [name \in {DATASET_EVERYDAY, DATASET_COMPLETE} |->
        IF name = DATASET_EVERYDAY THEN <<>> ELSE <<"all">>]

load_dataset_config(config) ==
    IF ~config.yaml_available THEN default_config
    ELSE IF ~config.readable THEN default_config
    ELSE IF ~config.has_datasets THEN EmptyMap
    ELSE config.datasets

\* datasets.get(dataset_name): [isNone, list].
get_dataset_blocks(dataset_name, config) ==
    IF dataset_name \in DOMAIN load_dataset_config(config)
    THEN [isNone |-> FALSE, list |-> load_dataset_config(config)[dataset_name]]
    ELSE [isNone |-> TRUE, list |-> <<>>]

\* A filter that trusts the block list configured for 'complete'.
filter_by_dataset_trusts_blocks(unicode_data, aliases_data, dataset, config) ==
    LET blocks == get_dataset_blocks(dataset, config)
    IN  IF blocks.isNone \/ blocks.list = <<>>
        THEN [unicode_data |-> unicode_data, aliases_data |-> aliases_data]
        ELSE filter_by_unicode_blocks(unicode_data, aliases_data, blocks)

filter_by_dataset(unicode_data, aliases_data, dataset, config) ==
    LET blocks == get_dataset_blocks(dataset, config)
    IN  IF blocks.isNone \/ blocks.list = <<>> \/ dataset = DATASET_COMPLETE
        THEN [unicode_data |-> unicode_data, aliases_data |-> aliases_data]
        ELSE filter_by_unicode_blocks(unicode_data, aliases_data, blocks)

\* filter_by_dataset has not been called.
NoDataset ==
    [name |-> "none",
     config |-> [yaml_available |-> FALSE, readable |-> FALSE, has_datasets |-> FALSE,
                 datasets |-> EmptyMap]]

(***************************************************************************)
(* The master snapshot.  The file at the master path is [state,            *)
(* master_data]: absent, corrupt (not a JSON document), not_object (a JSON *)
(* document that is no object) or valid, holding a JSON object, such as    *)
(* the document json.dump wrote.  json.dump and json.load carry strings,   *)
(* lists of strings and string-keyed objects over unchanged; what the      *)
(* repository's code adds is the refusal of empty input, the projection of *)
(* each record on four fields with a default block, the utf-8 encoding of  *)
(* the display character, and the .get defaults of the load.               *)
(***************************************************************************)
EmptyDocument == [unicode_data |-> EmptyMap, aliases_data |-> EmptyMap]
AbsentFile == [state |-> "absent", master_data |-> EmptyDocument]
CorruptFile == [state |-> "corrupt", master_data |-> EmptyDocument]
\* A JSON document whose top level is a list, a string, a number or null:
\* master_data.get raises AttributeError.
NotAnObjectFile == [state |-> "not_object", master_data |-> EmptyDocument]

\* A snapshot file that this user may read but not write has the state
\* "read_only": open(master_file_path, 'w') raises PermissionError, which
\* save_master_data_file catches, and the file keeps its contents.
ReadOnly(disk) == [disk EXCEPT !.state = "read_only"]

\* A lone surrogate (0xD800..0xDFFF) cannot be encoded as utf-8: f.write
\* raises UnicodeEncodeError after open(..., 'w') has truncated the file.
IsSurrogate(char_obj) == char_obj >= 55296 /\ char_obj <= 57343

MasterRecord(char_info) ==
    [name |-> char_info.name, category |-> char_info.category,
     char_obj |-> char_info.char_obj,
     block |-> IF "block" \in DOMAIN char_info THEN char_info.block ELSE "Unknown Block"]

\* The result is [path_none, disk]: whether None was returned, and the file
\* at the master path afterwards.
save_without_block(unicode_data, aliases_data, disk) ==
    IF unicode_data = EmptyMap \/ aliases_data = EmptyMap
    THEN [path_none |-> TRUE, disk |-> disk]
    ELSE IF disk.state = "read_only"
    THEN [path_none |-> TRUE, disk |-> disk]
    ELSE IF \E code_point \in DOMAIN unicode_data : IsSurrogate(unicode_data[code_point].char_obj)
    THEN [path_none |-> TRUE, disk |-> CorruptFile]
    ELSE [path_none |-> FALSE,
          disk |-> [state |-> "valid",
                    master_data |->
                        [unicode_data |-> [code_point \in DOMAIN unicode_data |->
                                              [MasterRecord(unicode_data[code_point])
                                                  EXCEPT !.block = "Unknown Block"]],
                         aliases_data |-> aliases_data]]]

\* A save that refuses an empty character map only.
save_checks_characters_only(unicode_data, aliases_data, disk) ==
    IF unicode_data = EmptyMap
    THEN [path_none |-> TRUE, disk |-> disk]
    ELSE IF disk.state = "read_only"
    THEN [path_none |-> TRUE, disk |-> disk]
    ELSE IF \E code_point \in DOMAIN unicode_data : IsSurrogate(unicode_data[code_point].char_obj)
    THEN [path_none |-> TRUE, disk |-> CorruptFile]
    ELSE [path_none |-> FALSE,
          disk |-> [state |-> "valid",
                    master_data |->
                        [unicode_data |-> [code_point \in DOMAIN unicode_data |->
                                              MasterRecord(unicode_data[code_point])],
                         aliases_data |-> aliases_data]]]

save_master_data_file(unicode_data, aliases_data, disk) ==
    IF unicode_data = EmptyMap \/ aliases_data = EmptyMap
    THEN [path_none |-> TRUE, disk |-> disk]
    ELSE IF disk.state = "read_only"
    THEN [path_none |-> TRUE, disk |-> disk]
    ELSE IF \E code_point \in DOMAIN unicode_data : IsSurrogate(unicode_data[code_point].char_obj)
    THEN [path_none |-> TRUE, disk |-> CorruptFile]
    ELSE [path_none |-> FALSE,
          disk |-> [state |-> "valid",
                    master_data |->
                        [unicode_data |-> [code_point \in DOMAIN unicode_data |->
                                              MasterRecord(unicode_data[code_point])],
                         aliases_data |-> aliases_data]]]

NothingLoaded == [isNone |-> TRUE, unicode_data |-> EmptyMap, aliases_data |-> EmptyMap]

\* A load that fails when a field of the object is missing.
load_requires_fields(disk) ==
    IF disk.state # "valid" THEN NothingLoaded
    ELSE IF "unicode_data" \notin DOMAIN disk.master_data THEN NothingLoaded
    ELSE IF "aliases_data" \notin DOMAIN disk.master_data THEN NothingLoaded
    ELSE [isNone |-> FALSE, unicode_data |-> disk.master_data.unicode_data,
          aliases_data |-> disk.master_data.aliases_data]

load_master_data_file(disk) ==
    IF disk.state = "absent" THEN NothingLoaded
    ELSE IF disk.state = "corrupt" THEN NothingLoaded
    ELSE IF disk.state = "not_object" THEN NothingLoaded
    ELSE [isNone |-> FALSE,
          unicode_data |-> IF "unicode_data" \in DOMAIN disk.master_data
                           THEN disk.master_data.unicode_data ELSE EmptyMap,
          aliases_data |-> IF "aliases_data" \in DOMAIN disk.master_data
                           THEN disk.master_data.aliases_data ELSE EmptyMap]

(***************************************************************************)
(* process_unicode_data: fetch, process, save the snapshot (glyph_catcher  *)
(* only), export, copy the source files.                                   *)
(***************************************************************************)
TextFile(exists) == [exists |-> exists, lines |-> <<>>]

NoFiles ==
    [unicode_data |-> TextFile(FALSE), name_aliases |-> TextFile(FALSE),
     names_list |-> TextFile(FALSE), has_cldr |-> FALSE,
     cldr_annotations |-> [exists |-> FALSE, annotations |-> <<>>]]

\* The three mandatory files are downloaded in order and {} is returned as
\* soon as one download fails; the CLDR path is added only when its download
\* succeeds.  A file a server does not offer is a failed download.
fetch_all_data_files(sources) ==
    IF ~sources.unicode_data.exists THEN [isEmpty |-> TRUE, file_paths |-> NoFiles]
    ELSE IF ~sources.name_aliases.exists THEN [isEmpty |-> TRUE, file_paths |-> NoFiles]
    ELSE IF ~sources.names_list.exists THEN [isEmpty |-> TRUE, file_paths |-> NoFiles]
    ELSE [isEmpty |-> FALSE,
          file_paths |-> [sources EXCEPT !.has_cldr = sources.cldr_annotations.exists]]

\* process_data_files of glyph_catcher, as a function of the paths.
gc_process_data_files(paths) ==
    LET formal == parse_name_aliases(paths.name_aliases)
        informative == parse_names_list(paths.names_list)
        cldr == IF paths.has_cldr
                THEN parse_cldr_annotations(paths.cldr_annotations)
                ELSE EmptyMap
    IN  [result_none |-> FALSE,
         unicode_data |-> parse_unicode_data(paths.unicode_data),
         formal_aliases |-> formal,
         informative_aliases |-> informative,
         cldr_annotations |-> Some(cldr),
         aliases_data |-> gc_merge(formal, informative, cldr)]

\* process_data_files of unifill_datafetch, as a function of the paths.
ud_process_data_files(paths) ==
    LET parsed == ud_parse_unicode_data(paths.unicode_data)
        formal == ud_parse_name_aliases(paths.name_aliases)
        informative == ud_parse_names_list(paths.names_list)
        cldr == IF paths.has_cldr
                THEN ud_parse_cldr_annotations(paths.cldr_annotations)
                ELSE NoneValue
    IN  IF ~Truthy(parsed) \/ ~Truthy(formal) \/ ~Truthy(informative)
        THEN [result_none |-> TRUE, unicode_data |-> EmptyMap,
              formal_aliases |-> EmptyMap, informative_aliases |-> EmptyMap,
              cldr_annotations |-> NoneValue, aliases_data |-> EmptyMap]
        ELSE [result_none |-> FALSE, unicode_data |-> parsed.val,
              formal_aliases |-> formal.val, informative_aliases |-> informative.val,
              cldr_annotations |-> cldr,
              aliases_data |-> merge_aliases(formal.val, informative.val, cldr)]

\* What process_data_files leaves behind when the fetch failed: it never ran.
NotProcessed ==
    [result_none |-> FALSE, unicode_data |-> EmptyMap, formal_aliases |-> EmptyMap,
     informative_aliases |-> EmptyMap, cldr_annotations |-> NoneValue,
     aliases_data |-> EmptyMap]

Formats(format_type) ==
    IF format_type = "all" THEN <<"csv", "json", "lua", "txt">> ELSE <<format_type>>

\* An export that takes whatever snapshot loads, empty maps included.
export_any_snapshot(unicode_data, aliases_data, options, disk) ==
    LET from_master == IF options.use_master_file /\ ~options.master_file_path.isNone
                       THEN load_master_data_file(disk)
                       ELSE NothingLoaded
        given == IF ~from_master.isNone
                 THEN [unicode_data |-> from_master.unicode_data,
                       aliases_data |-> from_master.aliases_data]
                 ELSE [unicode_data |-> unicode_data, aliases_data |-> aliases_data]
        data == IF ~options.unicode_blocks.isNone /\ options.unicode_blocks.list # <<>>
                THEN filter_by_unicode_blocks(given.unicode_data, given.aliases_data,
                                              options.unicode_blocks)
                ELSE given
    IN  [output_files |-> Formats(options.format_type),
         unicode_data |-> data.unicode_data, aliases_data |-> data.aliases_data]

\* export_data of glyph_catcher: the snapshot replaces the given data when
\* both of its maps load non-empty; the writers return nothing and catch
\* their own errors, so every format's file name is listed.
export_data(unicode_data, aliases_data, options, disk) ==
    LET from_master == IF options.use_master_file /\ ~options.master_file_path.isNone
                       THEN load_master_data_file(disk)
                       ELSE NothingLoaded
        use_master == /\ ~from_master.isNone
                      /\ from_master.unicode_data # EmptyMap
                      /\ from_master.aliases_data # EmptyMap
        given == IF use_master
                 THEN [unicode_data |-> from_master.unicode_data,
                       aliases_data |-> from_master.aliases_data]
                 ELSE [unicode_data |-> unicode_data, aliases_data |-> aliases_data]
        data == IF ~options.unicode_blocks.isNone /\ options.unicode_blocks.list # <<>>
                THEN filter_by_unicode_blocks(given.unicode_data, given.aliases_data,
                                              options.unicode_blocks)
                ELSE given
    IN  [output_files |-> Formats(options.format_type),
         unicode_data |-> data.unicode_data, aliases_data |-> data.aliases_data]

\* export_data of unifill_datafetch: a file is listed when its writer returns
\* True; every writer returns False for an empty map and when the utf-8
\* encoding of a character fails.
ud_export_data(unicode_data, aliases_data, options) ==
    [output_files |->
         IF unicode_data = EmptyMap THEN <<>>
         ELSE IF \E code_point \in DOMAIN unicode_data :
                     IsSurrogate(unicode_data[code_point].char_obj)
         THEN <<>>
         ELSE Formats(options.format_type),
     unicode_data |-> unicode_data, aliases_data |-> aliases_data]

FailedRun ==
    [returned |-> TRUE, success |-> FALSE, output_files |-> <<>>, executed |-> {},
     unicode_data |-> EmptyMap, aliases_data |-> EmptyMap]

\* A run that exports whatever was processed.
gc_run_without_checks(sources, export_options, disk) ==
    LET fetched == fetch_all_data_files(sources)
        processed == gc_process_data_files(fetched.file_paths)
        saved == save_master_data_file(processed.unicode_data, processed.aliases_data, disk)
        options == IF saved.path_none THEN export_options
                   ELSE [export_options EXCEPT !.master_file_path = [isNone |-> FALSE]]
        exported == export_data(processed.unicode_data, processed.aliases_data,
                                options, saved.disk)
    IN  [run |-> [returned |-> TRUE,
                  success |-> exported.output_files # <<>>,
                  output_files |-> exported.output_files,
                  executed |-> {"save_master_data_file", "export_data", "save_source_files"},
                  unicode_data |-> exported.unicode_data,
                  aliases_data |-> exported.aliases_data],
         processed |-> processed, disk |-> saved.disk,
         master_file_path |-> [isNone |-> saved.path_none]]

\* process_unicode_data of glyph_catcher.  The result is what it returned and
\* executed, what process_data_files returned, the file at the master path
\* afterwards and the path save_master_data_file returned.
gc_process_unicode_data(sources, export_options, disk) ==
    LET fetched == fetch_all_data_files(sources)
        processed == gc_process_data_files(fetched.file_paths)
        saved == save_master_data_file(processed.unicode_data, processed.aliases_data, disk)
        options == IF saved.path_none THEN export_options
                   ELSE [export_options EXCEPT !.master_file_path = [isNone |-> FALSE]]
        exported == export_data(processed.unicode_data, processed.aliases_data,
                                options, saved.disk)
    IN  IF fetched.isEmpty
        THEN [run |-> FailedRun, processed |-> NotProcessed, disk |-> disk,
              master_file_path |-> [isNone |-> TRUE]]
        ELSE IF processed.unicode_data = EmptyMap \/ processed.aliases_data = EmptyMap
        THEN [run |-> FailedRun, processed |-> processed, disk |-> disk,
              master_file_path |-> [isNone |-> TRUE]]
        ELSE [run |-> [returned |-> TRUE,
                       success |-> exported.output_files # <<>>,
                       output_files |-> exported.output_files,
                       executed |-> {"save_master_data_file", "export_data",
                                     "save_source_files"},
                       unicode_data |-> exported.unicode_data,
                       aliases_data |-> exported.aliases_data],
              processed |-> processed, disk |-> saved.disk,
              master_file_path |-> [isNone |-> saved.path_none]]

\* process_unicode_data of unifill_datafetch: no snapshot is saved.
ud_process_unicode_data(sources, export_options, disk) ==
    LET fetched == fetch_all_data_files(sources)
        processed == ud_process_data_files(fetched.file_paths)
        exported == ud_export_data(processed.unicode_data, processed.aliases_data,
                                   export_options)
    IN  IF fetched.isEmpty
        THEN [run |-> FailedRun, processed |-> NotProcessed, disk |-> disk,
              master_file_path |-> [isNone |-> TRUE]]
        ELSE IF processed.result_none
                    \/ processed.unicode_data = EmptyMap
                    \/ processed.aliases_data = EmptyMap
        THEN [run |-> FailedRun, processed |-> processed, disk |-> disk,
              master_file_path |-> [isNone |-> TRUE]]
        ELSE [run |-> [returned |-> TRUE,
                       success |-> exported.output_files # <<>>,
                       output_files |-> exported.output_files,
                       executed |-> {"export_data", "save_source_files"},
                       unicode_data |-> exported.unicode_data,
                       aliases_data |-> exported.aliases_data],
              processed |-> processed, disk |-> disk,
              master_file_path |-> [isNone |-> TRUE]]

(***************************************************************************)
(* download_file and fetch_all_data_files.  The world of a download is     *)
(* [cache, server]: the urls whose file is in the cache directory, and the *)
(* urls the server answers with a 200 response.  The four urls have four   *)
(* different base names, so that a cache file stands for one url.          *)
(***************************************************************************)
UNICODE_DATA_FILE_URL == "UnicodeData.txt"
NAME_ALIASES_FILE_URL == "NameAliases.txt"
NAMES_LIST_FILE_URL == "NamesList.txt"
CLDR_ANNOTATIONS_URL == "en.xml"

Urls == {UNICODE_DATA_FILE_URL, NAME_ALIASES_FILE_URL, NAMES_LIST_FILE_URL,
         CLDR_ANNOTATIONS_URL}

\* FetchOptions: use_cache, and whether cache_dir is set.
FetchOptionsPool == {
    [use_cache |-> TRUE, has_cache_dir |-> TRUE],
    [use_cache |-> TRUE, has_cache_dir |-> FALSE],
    [use_cache |-> FALSE, has_cache_dir |-> TRUE]
}

NoPath == [isNone |-> TRUE, kind |-> "none", url |-> "none"]
CachePath(url) == [isNone |-> FALSE, kind |-> "cache", url |-> url]
TempPath(url) == [isNone |-> FALSE, kind |-> "temp", url |-> url]

\* A download that never looks into the cache.
download_file_uncached(url, options, world) ==
    IF url \in world.server
    THEN IF options.use_cache /\ options.has_cache_dir
         THEN [result |-> CachePath(url), requests |-> <<url>>,
               cache |-> world.cache \union {url}]
         ELSE [result |-> TempPath(url), requests |-> <<url>>, cache |-> world.cache]
    ELSE [result |-> NoPath, requests |-> <<url>>, cache |-> world.cache]

\* The result is [result, requests, cache]: the path returned (or None), the
\* network requests made, and the cache afterwards.
download_file(url, options, world) ==
    IF options.use_cache /\ options.has_cache_dir /\ url \in world.cache
    THEN [result |-> CachePath(url), requests |-> <<>>, cache |-> world.cache]
    ELSE IF url \in world.server
    THEN IF options.use_cache /\ options.has_cache_dir
         THEN [result |-> CachePath(url), requests |-> <<url>>,
               cache |-> world.cache \union {url}]
         ELSE [result |-> TempPath(url), requests |-> <<url>>, cache |-> world.cache]
    ELSE [result |-> NoPath, requests |-> <<url>>, cache |-> world.cache]

\* A fetch that goes on after a failed download and returns what it has.
fetch_all_data_files_partial(options, world) ==
    LET first == download_file(UNICODE_DATA_FILE_URL, options, world)
        second == download_file(NAME_ALIASES_FILE_URL, options,
                                [world EXCEPT !.cache = first.cache])
        third == download_file(NAMES_LIST_FILE_URL, options,
                               [world EXCEPT !.cache = second.cache])
        fourth == download_file(CLDR_ANNOTATIONS_URL, options,
                                [world EXCEPT !.cache = third.cache])
        Entry(key, download) ==
            IF download.result.isNone THEN {} ELSE {<<key, download.result>>}
    IN  [result |-> Entry("unicode_data", first) \union Entry("name_aliases", second)
                        \union Entry("names_list", third)
                        \union Entry("cldr_annotations", fourth),
         downloads |-> <<UNICODE_DATA_FILE_URL, NAME_ALIASES_FILE_URL,
                         NAMES_LIST_FILE_URL, CLDR_ANNOTATIONS_URL>>,
         requests |-> first.requests \o second.requests \o third.requests
                          \o fourth.requests,
         cache |-> fourth.cache]

\* fetch_all_data_files, download by download.  The result is [result,
\* downloads, requests, cache]: the dictionary returned, as a set of
\* <<key, path>>; the urls passed to download_file, in order; the network
\* requests made; the cache afterwards.
fetch_all_data_files_steps(options, world) ==
    LET first == download_file(UNICODE_DATA_FILE_URL, options, world)
        second == download_file(NAME_ALIASES_FILE_URL, options,
                                [world EXCEPT !.cache = first.cache])
        third == download_file(NAMES_LIST_FILE_URL, options,
                               [world EXCEPT !.cache = second.cache])
        fourth == download_file(CLDR_ANNOTATIONS_URL, options,
                                [world EXCEPT !.cache = third.cache])
        required == {<<"unicode_data", first.result>>, <<"name_aliases", second.result>>,
                     <<"names_list", third.result>>}
    IN  IF first.result.isNone
        THEN [result |-> {}, downloads |-> <<UNICODE_DATA_FILE_URL>>,
              requests |-> first.requests, cache |-> first.cache]
        ELSE IF second.result.isNone
        THEN [result |-> {},
              downloads |-> <<UNICODE_DATA_FILE_URL, NAME_ALIASES_FILE_URL>>,
              requests |-> first.requests \o second.requests, cache |-> second.cache]
        ELSE IF third.result.isNone
        THEN [result |-> {},
              downloads |-> <<UNICODE_DATA_FILE_URL, NAME_ALIASES_FILE_URL,
                              NAMES_LIST_FILE_URL>>,
              requests |-> first.requests \o second.requests \o third.requests,
              cache |-> third.cache]
        ELSE [result |-> IF fourth.result.isNone THEN required
                         ELSE required \union {<<"cldr_annotations", fourth.result>>},
              downloads |-> <<UNICODE_DATA_FILE_URL, NAME_ALIASES_FILE_URL,
                              NAMES_LIST_FILE_URL, CLDR_ANNOTATIONS_URL>>,
              requests |-> first.requests \o second.requests \o third.requests
                               \o fourth.requests,
              cache |-> fourth.cache]

NoCall ==
    [op |-> "none", url |-> "none",
     options |-> [use_cache |-> FALSE, has_cache_dir |-> FALSE],
     world |-> [cache |-> {}, server |-> {}],
     result |-> NoPath, paths |-> {}, downloads |-> <<>>, requests |-> <<>>,
     cache |-> {}]

\* No call yet, an empty cache, a server that answers nothing.
NoFetch == [cache |-> {}, server |-> {}, call |-> NoCall]

\* process_unicode_data has not returned: nothing was executed.
NoRun ==
    [returned |-> FALSE, success |-> FALSE, output_files |-> <<>>, executed |-> {},
     unicode_data |-> EmptyMap, aliases_data |-> EmptyMap]

\* export_data has not been called.
NoExport ==
    [called |-> FALSE,
     options |-> [format_type |-> "json", use_master_file |-> FALSE,
                  master_file_path |-> [isNone |-> TRUE],
                  unicode_blocks |-> [isNone |-> TRUE, list |-> <<>>]],
     output_files |-> <<>>, unicode_data |-> EmptyMap, aliases_data |-> EmptyMap]

(***************************************************************************)
(* The inputs: the lines and annotation elements the source files are      *)
(* made of, and the block lists a caller filters by.                       *)
(***************************************************************************)
\* Lines of UnicodeData.txt: two characters of different blocks, a range
\* marker and a lone surrogate.
UnicodeDataLines == <<
    \* "0041;LATIN A;Lu;0"
    <<"0", "0", "4", "1", ";", "L", "A", "T", "I", "N", " ", "A", ";", "L", "u", ";", "0">>,
    \* "1F600;GRIN;So;0"
    <<"1", "F", "6", "0", "0", ";", "G", "R", "I", "N", ";", "S", "o", ";", "0">>,
    \* "3400;<CJK, First>;Lo;0"
    <<"3", "4", "0", "0", ";", "<", "C", "J", "K", ",", " ", "F", "i", "r", "s", "t", ">", ";", "L", "o", ";", "0">>,
    \* "D800;SUR;Cs;0"
    <<"D", "8", "0", "0", ";", "S", "U", "R", ";", "C", "s", ";", "0">>
>>

\* Lines of NameAliases.txt: two aliases of U+0041 that differ in case and
\* trailing space only, an empty alias field, and an alias of a code point
\* inside a First/Last range.
NameAliasesLines == <<
    \* "0041;LA;abbreviation"
    <<"0", "0", "4", "1", ";", "L", "A", ";", "a", "b", "b", "r", "e", "v", "i", "a", "t", "i", "o", "n">>,
    \* "0041;la ;correction"
    <<"0", "0", "4", "1", ";", "l", "a", " ", ";", "c", "o", "r", "r", "e", "c", "t", "i", "o", "n">>,
    \* "0041;;figment"
    <<"0", "0", "4", "1", ";", ";", "f", "i", "g", "m", "e", "n", "t">>,
    \* "3400;CJK;control"
    <<"3", "4", "0", "0", ";", "C", "J", "K", ";", "c", "o", "n", "t", "r", "o", "l">>
>>

\* Lines of NamesList.txt: two headers (one in lowercase hex), an alias
\* line, an alias line with no text, a note line.
NamesListLines == <<
    \* "0041\tLATIN A"
    <<"0", "0", "4", "1", "\t", "L", "A", "T", "I", "N", " ", "A">>,
    \* "1f600\tGRIN"
    <<"1", "f", "6", "0", "0", "\t", "G", "R", "I", "N">>,
    \* "\t= La"
    <<"\t", "=", " ", "L", "a">>,
    \* "\t="
    <<"\t", "=">>,
    \* "\t* grin"
    <<"\t", "*", " ", "g", "r", "i", "n">>
>>

\* annotation elements of the CLDR document: cp="A" with text "la | a",
\* cp=U+1F600 with text "grin||x" (an empty segment), and a type="tts"
\* element.
CldrAnnotations == <<
    [has_type |-> FALSE, has_cp |-> TRUE, cp |-> <<65>>,
     text |-> <<"l", "a", " ", "|", " ", "a">>],
    [has_type |-> FALSE, has_cp |-> TRUE, cp |-> <<128512>>,
     text |-> <<"g", "r", "i", "n", "|", "|", "x">>],
    [has_type |-> TRUE, has_cp |-> TRUE, cp |-> <<65>>,
     text |-> <<"c", "a", "p", "i", "t", "a", "l", " ", "a">>]
>>

BlockLists == {
    [isNone |-> TRUE, list |-> <<>>],
    [isNone |-> FALSE, list |-> <<>>],
    [isNone |-> FALSE, list |-> <<"all">>],
    [isNone |-> FALSE, list |-> <<"Basic Latin", "all">>],
    [isNone |-> FALSE, list |-> <<"Basic Latin">>],
    [isNone |-> FALSE, list |-> <<"Emoticons", "Cyrillic">>]
}

\* The number of lines and annotation elements of the four source files
\* together.
MaxLines == 4

(***************************************************************************)
(* The state.                                                              *)
(***************************************************************************)
VARIABLES
    pc,                   \* "input", "processed", "filtered", "saved", "loaded"
    pkg,                  \* the package whose process_data_files ran
    file_paths,           \* the source files, and whether the CLDR path is given
    unicode_data,         \* process_data_files: the character map
    formal_aliases,       \* process_data_files: what parse_name_aliases returned
    informative_aliases,  \* process_data_files: what parse_names_list returned
    cldr_annotations,     \* process_data_files: the CLDR map, [isNone, val]
    aliases_data,         \* process_data_files: the merged alias map
    result_none,          \* process_data_files returned (None, None)
    blocks,               \* filter_by_unicode_blocks: its blocks argument
    filtered,             \* filter_by_unicode_blocks: the pair it returned
    disk,                 \* the file at the master path
    master_file_path,     \* save_master_data_file: [isNone], the path returned
    loaded,               \* load_master_data_file: what it returned
    run,                  \* process_unicode_data: what it returned and executed
    code_point,           \* get_unicode_block: its argument
    block,                \* get_unicode_block: the name it returned
    fetch,                \* download_file, fetch_all_data_files: cache, server and the last call
    export,               \* export_data: its options and the data it wrote
    dataset               \* filter_by_dataset: the dataset name and the configuration

vars == <<pc, pkg, file_paths, unicode_data, formal_aliases, informative_aliases,
          cldr_annotations, aliases_data, result_none, blocks, filtered, disk,
          master_file_path, loaded, run,
          code_point,
          block,
          fetch,
          export,
          dataset>>

processed_vars == <<pkg, unicode_data, formal_aliases, informative_aliases,
                    cldr_annotations, aliases_data, result_none>>

TotalLines ==
    Len(file_paths.unicode_data.lines) + Len(file_paths.name_aliases.lines)
        + Len(file_paths.names_list.lines) + Len(file_paths.cldr_annotations.annotations)

Init ==
    /\ pc = "input"
    /\ pkg = "none"
    /\ \E u \in BOOLEAN, n \in BOOLEAN, l \in BOOLEAN, c \in BOOLEAN :
           file_paths = [unicode_data |-> TextFile(u), name_aliases |-> TextFile(n),
                         names_list |-> TextFile(l), has_cldr |-> c,
                         cldr_annotations |-> [exists |-> c, annotations |-> <<>>]]
    /\ unicode_data = EmptyMap
    /\ formal_aliases = EmptyMap
    /\ informative_aliases = EmptyMap
    /\ cldr_annotations = NoneValue
    /\ aliases_data = EmptyMap
    /\ result_none = FALSE
    /\ blocks = [isNone |-> TRUE, list |-> <<>>]
    /\ filtered = [unicode_data |-> EmptyMap, aliases_data |-> EmptyMap]
    /\ disk = AbsentFile
    /\ master_file_path = [isNone |-> TRUE]
    /\ loaded = NothingLoaded
    /\ run = NoRun
    /\ code_point = 0
    /\ block = "none"
    /\ fetch = NoFetch
    /\ export = NoExport
    /\ dataset = NoDataset

(***************************************************************************)
(* The fetch collaborator materializes the source files.                   *)
(***************************************************************************)
WriteUnicodeDataLine ==
    /\ pc = "input" /\ TotalLines < MaxLines /\ file_paths.unicode_data.exists
    /\ \E i \in 1..Len(UnicodeDataLines) :
           file_paths' = [file_paths EXCEPT !.unicode_data.lines = Append(@, UnicodeDataLines[i])]
    /\ UNCHANGED <<pc, processed_vars, blocks, filtered, disk, master_file_path, loaded, run, code_point, block, fetch, export, dataset>>

WriteNameAliasesLine ==
    /\ pc = "input" /\ TotalLines < MaxLines /\ file_paths.name_aliases.exists
    /\ \E i \in 1..Len(NameAliasesLines) :
           file_paths' = [file_paths EXCEPT !.name_aliases.lines = Append(@, NameAliasesLines[i])]
    /\ UNCHANGED <<pc, processed_vars, blocks, filtered, disk, master_file_path, loaded, run, code_point, block, fetch, export, dataset>>

WriteNamesListLine ==
    /\ pc = "input" /\ TotalLines < MaxLines /\ file_paths.names_list.exists
    /\ \E i \in 1..Len(NamesListLines) :
           file_paths' = [file_paths EXCEPT !.names_list.lines = Append(@, NamesListLines[i])]
    /\ UNCHANGED <<pc, processed_vars, blocks, filtered, disk, master_file_path, loaded, run, code_point, block, fetch, export, dataset>>

WriteCldrAnnotation ==
    /\ pc = "input" /\ TotalLines < MaxLines /\ file_paths.has_cldr
    /\ \E i \in 1..Len(CldrAnnotations) :
           file_paths' = [file_paths EXCEPT
                              !.cldr_annotations.annotations = Append(@, CldrAnnotations[i])]
    /\ UNCHANGED <<pc, processed_vars, blocks, filtered, disk, master_file_path, loaded, run, code_point, block, fetch, export, dataset>>

(***************************************************************************)
(* process_data_files of glyph_catcher.                                    *)
(***************************************************************************)
GlyphCatcherProcessDataFiles ==
    /\ pc = "input"
    /\ LET formal == parse_name_aliases(file_paths.name_aliases)
           informative == parse_names_list(file_paths.names_list)
           cldr == IF file_paths.has_cldr
                   THEN parse_cldr_annotations(file_paths.cldr_annotations)
                   ELSE EmptyMap
       IN  /\ unicode_data' = parse_unicode_data(file_paths.unicode_data)
           /\ formal_aliases' = formal
           /\ informative_aliases' = informative
           /\ cldr_annotations' = Some(cldr)
           /\ aliases_data' = gc_merge(formal, informative, cldr)
    /\ result_none' = FALSE
    /\ pkg' = "glyph_catcher"
    /\ pc' = "processed"
    /\ UNCHANGED <<file_paths, blocks, filtered, disk, master_file_path, loaded, run, code_point, block, fetch, export, dataset>>

(***************************************************************************)
(* process_data_files of unifill_datafetch.                                *)
(***************************************************************************)
DatafetchProcessDataFiles ==
    /\ pc = "input"
    /\ LET parsed == ud_parse_unicode_data(file_paths.unicode_data)
           formal == ud_parse_name_aliases(file_paths.name_aliases)
           informative == ud_parse_names_list(file_paths.names_list)
           cldr == IF file_paths.has_cldr
                   THEN ud_parse_cldr_annotations(file_paths.cldr_annotations)
                   ELSE NoneValue
       IN  IF ~Truthy(parsed) \/ ~Truthy(formal) \/ ~Truthy(informative)
           THEN /\ result_none' = TRUE
                /\ unicode_data' = EmptyMap
                /\ formal_aliases' = EmptyMap
                /\ informative_aliases' = EmptyMap
                /\ cldr_annotations' = NoneValue
                /\ aliases_data' = EmptyMap
           ELSE /\ result_none' = FALSE
                /\ unicode_data' = parsed.val
                /\ formal_aliases' = formal.val
                /\ informative_aliases' = informative.val
                /\ cldr_annotations' = cldr
                /\ aliases_data' = merge_aliases(formal.val, informative.val, cldr)
    /\ pkg' = "unifill_datafetch"
    /\ pc' = "processed"
    /\ UNCHANGED <<file_paths, blocks, filtered, disk, master_file_path, loaded, run, code_point, block, fetch, export, dataset>>

(***************************************************************************)
(* The functions a caller of glyph_catcher applies to the processed data.  *)
(***************************************************************************)
FilterByUnicodeBlocks ==
    /\ pc = "processed" /\ pkg = "glyph_catcher"
    /\ \E b \in BlockLists :
           /\ blocks' = b
           /\ filtered' = filter_by_unicode_blocks(unicode_data, aliases_data, b)
    /\ pc' = "filtered"
    /\ UNCHANGED <<file_paths, processed_vars, disk, master_file_path, loaded, run, code_point, block, fetch, export, dataset>>

SaveMasterDataFile ==
    /\ pc = "processed" /\ pkg = "glyph_catcher"
    /\ LET saved == save_master_data_file(unicode_data, aliases_data, disk)
       IN  /\ disk' = saved.disk
           /\ master_file_path' = [isNone |-> saved.path_none]
    /\ pc' = "saved"
    /\ UNCHANGED <<file_paths, processed_vars, blocks, filtered, loaded, run, code_point, block, fetch, export, dataset>>

LoadMasterDataFile ==
    /\ pc = "saved"
    /\ loaded' = load_master_data_file(disk)
    /\ pc' = "loaded"
    /\ UNCHANGED <<file_paths, processed_vars, blocks, filtered, disk, master_file_path, run, code_point, block, fetch, export, dataset>>

Next ==
    \/ WriteUnicodeDataLine
    \/ WriteNameAliasesLine
    \/ WriteNamesListLine
    \/ WriteCldrAnnotation
    \/ GlyphCatcherProcessDataFiles
    \/ DatafetchProcessDataFiles
    \/ FilterByUnicodeBlocks
    \/ SaveMasterDataFile
    \/ LoadMasterDataFile

Spec == Init /\ [][Next]_vars

(***************************************************************************)
(* Vocabulary of the properties.                                           *)
(***************************************************************************)
Range(list) == {list[i] : i \in 1..Len(list)}

\* trim(lower(a)), the normalized form of an alias.
normalize_alias(a) == strip(lower(a))

RECURSIVE ConcatLists(_, _)
ConcatLists(source, keys) ==
    IF keys = <<>> THEN <<>> ELSE source[Head(keys)] \o ConcatLists(source, Tail(keys))

\* What each source holds for the merged key c.
FormalFor(c) == Get(formal_aliases, c, <<>>)
InformativeFor(c) ==
    ConcatLists(informative_aliases, KeysOf({k \in DOMAIN informative_aliases : upper(k) = c}))
CldrFor(c) == Get(cldr_annotations.val, c, <<>>)

\* The aliases of c in the order of the traversal formal, informative, CLDR.
SourceAliases(c) == FormalFor(c) \o InformativeFor(c) \o CldrFor(c)

Processed == pc = "processed" /\ ~result_none

FirstIndex(list, x) == CHOOSE i \in 1..Len(list) : list[i] = x /\ \A j \in 1..(i - 1) : list[j] # x

IsFirstOccurrence(list, i) == \A j \in 1..(i - 1) : list[j] # list[i]

\* 1, 2 or 3: the first source, in traversal order, that holds alias x for c.
SourceRank(c, x) ==
    IF x \in Range(FormalFor(c)) THEN 1 ELSE IF x \in Range(InformativeFor(c)) THEN 2 ELSE 3

(***************************************************************************)
(* C1: the merge deduplicates per code point: for any two source aliases   *)
(* of a code point with the same normalized form, the merged list of that  *)
(* code point holds exactly one element with that normalized form.         *)
(* process_data_files and merge_aliases only concatenate the source lists, *)
(* so this fails as soon as two aliases differ in case or outer space.     *)
(***************************************************************************)
C1_MergeDeduplicates ==
    Processed =>
        \A c \in DOMAIN aliases_data :
            \A i, j \in 1..Len(SourceAliases(c)) :
                normalize_alias(SourceAliases(c)[i]) = normalize_alias(SourceAliases(c)[j]) =>
                    Cardinality({p \in 1..Len(aliases_data[c]) :
                                    normalize_alias(aliases_data[c][p]) = normalize_alias(SourceAliases(c)[i])}) = 1

(***************************************************************************)
(* C2: every alias stored in the merge result is in normalized form,       *)
(* e = trim(lower(e)).  The code stores the aliases as the parsers         *)
(* produced them.                                                          *)
(***************************************************************************)
C2_StoredAliasesNormalized ==
    Processed /\ pkg = "glyph_catcher" =>
        \A c \in DOMAIN aliases_data :
            \A p \in 1..Len(aliases_data[c]) : aliases_data[c][p] = normalize_alias(aliases_data[c][p])

(***************************************************************************)
(* C3: the code-point key is one canonical string shared by all maps:      *)
(* after merging, every alias that a source holds for a character of the   *)
(* primary table is found under that character's primary-table key.        *)
(* parse_cldr_annotations files its aliases under format(ord(ch), 'X'),    *)
(* which has no zero padding, so it differs from the primary key below     *)
(* U+1000.                                                                 *)
(***************************************************************************)
\* The annotation elements that contribute aliases.
Contributing(annotation) ==
    ~annotation.has_type /\ annotation.has_cp /\ annotation.cp # <<>> /\ annotation.text # <<>>

C3_OneKeyForAllMaps ==
    Processed /\ pkg = "glyph_catcher" =>
        \A k \in DOMAIN unicode_data :
            /\ \A f \in DOMAIN formal_aliases :
                   IsHex(f) /\ HexValue(f) = unicode_data[k].char_obj =>
                       k \in DOMAIN aliases_data /\ Range(formal_aliases[f]) \subseteq Range(aliases_data[k])
            /\ \A n \in DOMAIN informative_aliases :
                   IsHex(n) /\ HexValue(n) = unicode_data[k].char_obj =>
                       k \in DOMAIN aliases_data /\ Range(informative_aliases[n]) \subseteq Range(aliases_data[k])
            /\ file_paths.has_cldr =>
                   \A i \in 1..Len(file_paths.cldr_annotations.annotations) :
                       LET annotation == file_paths.cldr_annotations.annotations[i]
                       IN  Contributing(annotation) /\ annotation.cp[1] = unicode_data[k].char_obj =>
                               /\ k \in DOMAIN aliases_data
                               /\ Range(StripAll(split(annotation.text, "|"))) \subseteq Range(aliases_data[k])

(***************************************************************************)
(* C4: after merging, the keys of the alias map are a subset of the keys   *)
(* of the primary character map.  The merge never consults the character   *)
(* map (merge_aliases does not even receive it).                           *)
(***************************************************************************)
C4_AliasKeysSubsetOfPrimary ==
    Processed => DOMAIN aliases_data \subseteq DOMAIN unicode_data

\* C4 as amended: the keys of the merged alias map are exactly the keys of
\* the formal map, the uppercased keys of the informative map and the keys of
\* the CLDR map that was merged, whether or not the primary map has them.
SourceKeys ==
    DOMAIN formal_aliases \cup {upper(k) : k \in DOMAIN informative_aliases}
        \cup DOMAIN cldr_annotations.val

C4_AliasKeysAreSourceKeys ==
    Processed => DOMAIN aliases_data = SourceKeys

C4_Witness ==
    /\ Processed
    /\ unicode_data # EmptyMap
    /\ \E k \in DOMAIN aliases_data : k \notin DOMAIN unicode_data

(***************************************************************************)
(* C5: no empty or whitespace-only alias is admitted: no list returned by  *)
(* a parser and no merged list holds a string that is empty after          *)
(* trimming.  The parsers append the second field, the text after '=' and  *)
(* every '|' segment without testing them.                                 *)
(***************************************************************************)
NoBlankAlias(map) ==
    \A c \in DOMAIN map : \A p \in 1..Len(map[c]) : strip(map[c][p]) # <<>>

C5_NoBlankAliasAdmitted ==
    Processed =>
        /\ NoBlankAlias(formal_aliases)
        /\ NoBlankAlias(informative_aliases)
        /\ NoBlankAlias(cldr_annotations.val)
        /\ NoBlankAlias(aliases_data)

(***************************************************************************)
(* C6: merge ordering: within the merged list of a code point the elements *)
(* appear in order of first occurrence in the traversal formal, then       *)
(* informative, then CLDR, each source's list in the order its parser      *)
(* produced it; an alias of a later source never precedes a distinct alias *)
(* of an earlier source.                                                   *)
(***************************************************************************)
C6_MergeOrder ==
    Processed =>
        \A c \in DOMAIN aliases_data :
            /\ Range(aliases_data[c]) = Range(SourceAliases(c))
            /\ \A i, j \in 1..Len(aliases_data[c]) :
                   /\ i < j
                   /\ IsFirstOccurrence(aliases_data[c], i)
                   /\ IsFirstOccurrence(aliases_data[c], j)
                   => /\ FirstIndex(SourceAliases(c), aliases_data[c][i])
                            < FirstIndex(SourceAliases(c), aliases_data[c][j])
                      /\ SourceRank(c, aliases_data[c][i]) <= SourceRank(c, aliases_data[c][j])

\* A code point with distinct aliases from the formal and the informative
\* source has been merged.
C6_Witness ==
    /\ Processed
    /\ \E c \in DOMAIN aliases_data :
           /\ FormalFor(c) # <<>>
           /\ \E x \in Range(InformativeFor(c)) : x \notin Range(FormalFor(c))

(***************************************************************************)
(* C7: an omitted CLDR source is equivalent to an empty one:               *)
(* merge_aliases(F, I, {}) and merge_aliases(F, I, None) return equal      *)
(* maps, and that map is what process_data_files returns when the CLDR map *)
(* it obtained is None or empty.                                           *)
(***************************************************************************)
C7_NoneCldrIsEmptyCldr ==
    Processed /\ pkg = "unifill_datafetch" =>
        /\ merge_aliases(formal_aliases, informative_aliases, NoneValue)
               = merge_aliases(formal_aliases, informative_aliases, Some(EmptyMap))
        /\ ~Truthy(cldr_annotations) =>
               aliases_data = merge_aliases(formal_aliases, informative_aliases, Some(EmptyMap))

\* merge_aliases has run with cldr_annotations = None on non-empty formal and
\* informative maps.
C7_Witness ==
    /\ Processed
    /\ pkg = "unifill_datafetch"
    /\ cldr_annotations.isNone
    /\ formal_aliases # EmptyMap
    /\ informative_aliases # EmptyMap

(***************************************************************************)
(* C8: filter_by_unicode_blocks is the identity when blocks is None or     *)
(* contains 'all': the returned pair has the content of the inputs, alias  *)
(* keys without a character record included.                               *)
(***************************************************************************)
C8_FilterIdentity ==
    pc = "filtered" /\ (blocks.isNone \/ InList("all", blocks.list)) =>
        /\ filtered.unicode_data = unicode_data
        /\ filtered.aliases_data = aliases_data

\* The filter has run with a list that names a block and 'all', on an alias
\* map with a key that has no character record.
C8_Witness ==
    /\ pc = "filtered"
    /\ ~blocks.isNone /\ InList("all", blocks.list) /\ Len(blocks.list) > 1
    /\ unicode_data # EmptyMap
    /\ \E k \in DOMAIN aliases_data : k \notin DOMAIN unicode_data

(***************************************************************************)
(* C9: for a non-empty blocks list without 'all' the filter returns        *)
(* exactly the character records whose stored block is in blocks, and an   *)
(* alias map whose keys are the retained character keys that have an alias *)
(* entry, each with its list unchanged; a retained character without alias *)
(* entry gets none.                                                        *)
(***************************************************************************)
RetainedKeys ==
    {k \in DOMAIN unicode_data : \E i \in 1..Len(blocks.list) : unicode_data[k].block = blocks.list[i]}

C9_FilterByBlocks ==
    pc = "filtered" /\ ~blocks.isNone /\ blocks.list # <<>> /\ ~InList("all", blocks.list) =>
        /\ DOMAIN filtered.unicode_data = RetainedKeys
        /\ \A k \in RetainedKeys : filtered.unicode_data[k] = unicode_data[k]
        /\ DOMAIN filtered.aliases_data = RetainedKeys \cap DOMAIN aliases_data
        /\ \A k \in RetainedKeys \cap DOMAIN aliases_data : filtered.aliases_data[k] = aliases_data[k]

\* The filter has retained a character that has no alias entry and dropped a
\* character that has one.
C9_Witness ==
    /\ pc = "filtered" /\ ~blocks.isNone /\ blocks.list # <<>> /\ ~InList("all", blocks.list)
    /\ \E k \in RetainedKeys : k \notin DOMAIN aliases_data
    /\ \E k \in DOMAIN unicode_data \ RetainedKeys : k \in DOMAIN aliases_data

(***************************************************************************)
(* C10: the snapshot round trip is lossless for every character map and    *)
(* alias map, an empty alias map included: load_master_data_file applied   *)
(* to what save_master_data_file wrote returns maps equal to the           *)
(* originals.  Stated for the non-empty character maps whose display       *)
(* characters are Unicode scalar values.  save_master_data_file refuses an *)
(* empty alias map and writes nothing, so there is nothing to load.        *)
(***************************************************************************)
ScalarValuesOnly ==
    \A k \in DOMAIN unicode_data : ~IsSurrogate(unicode_data[k].char_obj)

SnapshotCharacters ==
    parse_unicode_data_lines(EmptyMap,
        <<UnicodeDataLines[1], UnicodeDataLines[2],
          <<"0", "4", "1", "0", ";", "C", "Y", "R", ";", "L", "u", ";", "0">> >>)

SnapshotAliases ==
    parse_name_aliases_lines(EmptyMap,
        <<NameAliasesLines[1], NameAliasesLines[2], NameAliasesLines[4],
          <<"1", "F", "6", "0", "0", ";", "g", "r", "i", "n">> >>)

SnapshotCharacterMaps == {Restrict(SnapshotCharacters, S) : S \in SUBSET DOMAIN SnapshotCharacters}

SnapshotAliasMaps == {Restrict(SnapshotAliases, S) : S \in SUBSET DOMAIN SnapshotAliases}

\* The JSON objects: each field present or missing.
SnapshotDocuments ==
    {[unicode_data |-> u, aliases_data |-> a] : u \in SnapshotCharacterMaps, a \in SnapshotAliasMaps}
        \cup {[unicode_data |-> u] : u \in SnapshotCharacterMaps}
        \cup {[aliases_data |-> a] : a \in SnapshotAliasMaps}
        \cup {EmptyMap}

SnapshotFiles ==
    {AbsentFile, CorruptFile, NotAnObjectFile}
        \cup {[state |-> "valid", master_data |-> d] : d \in SnapshotDocuments}

InitLoad ==
    /\ pc = "saved"
    /\ pkg = "none"
    /\ file_paths = [unicode_data |-> TextFile(FALSE), name_aliases |-> TextFile(FALSE),
                     names_list |-> TextFile(FALSE), has_cldr |-> FALSE,
                     cldr_annotations |-> [exists |-> FALSE, annotations |-> <<>>]]
    /\ unicode_data = EmptyMap
    /\ formal_aliases = EmptyMap
    /\ informative_aliases = EmptyMap
    /\ cldr_annotations = NoneValue
    /\ aliases_data = EmptyMap
    /\ result_none = FALSE
    /\ blocks = [isNone |-> TRUE, list |-> <<>>]
    /\ filtered = [unicode_data |-> EmptyMap, aliases_data |-> EmptyMap]
    /\ disk \in SnapshotFiles
    /\ master_file_path = [isNone |-> FALSE]
    /\ loaded = NothingLoaded
    /\ run = NoRun
    /\ code_point = 0
    /\ block = "none"
    /\ fetch = NoFetch
    /\ export = NoExport
    /\ dataset = NoDataset

NextLoad == LoadMasterDataFile

SpecLoad == InitLoad /\ [][NextLoad]_vars

HasField(document, field) == field \in DOMAIN document

PrimaryTableLines ==
    UnicodeDataLines \o <<
    \* "4DBF;<CJK, Last>;Lo;0"
    <<"4", "D", "B", "F", ";", "<", "C", "J", "K", ",", " ", "L", "a", "s", "t", ">", ";", "L", "o", ";", "0">>,
    \* "ZZ;BAD;Lu;0"
    <<"Z", "Z", ";", "B", "A", "D", ";", "L", "u", ";", "0">>,
    \* "110000;OVER;Cn;0"
    <<"1", "1", "0", "0", "0", "0", ";", "O", "V", "E", "R", ";", "C", "n", ";", "0">>,
    \* "80000000;HUGE;Cn;0"
    <<"8", "0", "0", "0", "0", "0", "0", "0", ";", "H", "U", "G", "E", ";", "C", "n", ";", "0">>,
    \* "0041;SHORT"
    <<"0", "0", "4", "1", ";", "S", "H", "O", "R", "T">>,
    \* "0041;LATIN B;Ll;0"
    <<"0", "0", "4", "1", ";", "L", "A", "T", "I", "N", " ", "B", ";", "L", "l", ";", "0">>
>>

\* NameAliases.txt: also a comment, a blank line, a line of one field and an
\* alias in mixed case.
FormalAliasLines ==
    NameAliasesLines \o <<
    \* "# comment"
    <<"#", " ", "c", "o", "m", "m", "e", "n", "t">>,
    \* ""
    <<>>,
    \* "0041"
    <<"0", "0", "4", "1">>,
    \* "1F600;Grin Face;alternate"
    <<"1", "F", "6", "0", "0", ";", "G", "r", "i", "n", " ", "F", "a", "c", "e", ";", "a", "l", "t", "e", "r", "n", "a", "t", "e">>
>>

\* NamesList.txt: also notes of 49 and 50 characters, a note with
\* parentheses, the comment lines, a blank line, an unindented line without
\* tab, an indented line that is neither alias nor note, a header with a
\* second tab, and an alias line indented with a space.
InformativeLines ==
    NamesListLines \o <<
    \* "\t* xxxxxxxxxxxxxxxxxxxxxxxxxxxxxxxxxxxxxxxxxxxxxxxxx"
    <<"\t", "*", " ", "x", "x", "x", "x", "x", "x", "x", "x", "x", "x", "x", "x", "x", "x", "x", "x", "x", "x", "x", "x", "x", "x", "x", "x", "x", "x", "x", "x", "x", "x", "x", "x", "x", "x", "x", "x", "x", "x", "x", "x", "x", "x", "x", "x", "x", "x", "x", "x", "x">>,
    \* "\t* xxxxxxxxxxxxxxxxxxxxxxxxxxxxxxxxxxxxxxxxxxxxxxxxxx"
    <<"\t", "*", " ", "x", "x", "x", "x", "x", "x", "x", "x", "x", "x", "x", "x", "x", "x", "x", "x", "x", "x", "x", "x", "x", "x", "x", "x", "x", "x", "x", "x", "x", "x", "x", "x", "x", "x", "x", "x", "x", "x", "x", "x", "x", "x", "x", "x", "x", "x", "x", "x", "x", "x">>,
    \* "\t* see (x)"
    <<"\t", "*", " ", "s", "e", "e", " ", "(", "x", ")">>,
    \* "@\tBlock"
    <<"@", "\t", "B", "l", "o", "c", "k">>,
    \* "; comment"
    <<";", " ", "c", "o", "m", "m", "e", "n", "t">>,
    \* ""
    <<>>,
    \* "NOT A HEADER"
    <<"N", "O", "T", " ", "A", " ", "H", "E", "A", "D", "E", "R">>,
    \* "\tx plain"
    <<"\t", "x", " ", "p", "l", "a", "i", "n">>,
    \* "0410\tA\tB"
    <<"0", "4", "1", "0", "\t", "A", "\t", "B">>,
    \* " = La"
    <<" ", "=", " ", "L", "a">>
>>

\* The CLDR document: also an element without cp, one without text, one
\* whose cp is empty, one whose cp has two characters (A and a combining
\* accent) and a type="tts" element whose cp is empty.
AnnotationElements ==
    CldrAnnotations \o <<
    [has_type |-> FALSE, has_cp |-> FALSE, cp |-> <<>>, text |-> <<"x">>],
    [has_type |-> FALSE, has_cp |-> TRUE, cp |-> <<65>>, text |-> <<>>],
    [has_type |-> FALSE, has_cp |-> TRUE, cp |-> <<>>, text |-> <<"x">>],
    [has_type |-> FALSE, has_cp |-> TRUE, cp |-> <<65, 769>>, text |-> <<"x", "|", "y">>],
    [has_type |-> TRUE, has_cp |-> TRUE, cp |-> <<>>, text |-> <<"x">>]
>>

\* The number of lines (annotation elements) of the file under test.
MaxFileLines == 3

\* The texts of at most MaxFileLines lines of the pool.
LinesOf(pool) == UNION {[1..k -> {pool[i] : i \in 1..Len(pool)}] : k \in 0..MaxFileLines}

InitParse ==
    /\ pc = "input"
    /\ pkg = "none"
    /\ \/ file_paths = NoFiles
       \/ \E l \in LinesOf(PrimaryTableLines) :
              file_paths = [NoFiles EXCEPT !.unicode_data = [exists |-> TRUE, lines |-> l]]
       \/ \E l \in LinesOf(FormalAliasLines) :
              file_paths = [NoFiles EXCEPT !.name_aliases = [exists |-> TRUE, lines |-> l]]
       \/ \E l \in LinesOf(InformativeLines) :
              file_paths = [NoFiles EXCEPT !.names_list = [exists |-> TRUE, lines |-> l]]
       \/ \E l \in LinesOf(AnnotationElements) :
              file_paths = [NoFiles EXCEPT !.has_cldr = TRUE,
                               !.cldr_annotations = [exists |-> TRUE, annotations |-> l]]
    /\ unicode_data = EmptyMap
    /\ formal_aliases = EmptyMap
    /\ informative_aliases = EmptyMap
    /\ cldr_annotations = NoneValue
    /\ aliases_data = EmptyMap
    /\ result_none = FALSE
    /\ blocks = [isNone |-> TRUE, list |-> <<>>]
    /\ filtered = [unicode_data |-> EmptyMap, aliases_data |-> EmptyMap]
    /\ disk = AbsentFile
    /\ master_file_path = [isNone |-> TRUE]
    /\ loaded = NothingLoaded
    /\ run = NoRun
    /\ code_point = 0
    /\ block = "none"
    /\ fetch = NoFetch
    /\ export = NoExport
    /\ dataset = NoDataset

\* What a parser call leaves alone.
parse_frame == <<file_paths, aliases_data, blocks, filtered, disk, master_file_path, loaded, run, code_point, block, fetch, export, dataset>>

ParseUnicodeData ==
    /\ pc = "input"
    /\ unicode_data' = parse_unicode_data(file_paths.unicode_data)
    /\ result_none' = FALSE
    /\ pkg' = "glyph_catcher"
    /\ pc' = "parse_unicode_data"
    /\ UNCHANGED <<parse_frame, formal_aliases, informative_aliases, cldr_annotations>>

ParseNameAliases ==
    /\ pc = "input"
    /\ formal_aliases' = parse_name_aliases(file_paths.name_aliases)
    /\ result_none' = FALSE
    /\ pkg' = "glyph_catcher"
    /\ pc' = "parse_name_aliases"
    /\ UNCHANGED <<parse_frame, unicode_data, informative_aliases, cldr_annotations>>

ParseNamesList ==
    /\ pc = "input"
    /\ informative_aliases' = parse_names_list(file_paths.names_list)
    /\ result_none' = FALSE
    /\ pkg' = "glyph_catcher"
    /\ pc' = "parse_names_list"
    /\ UNCHANGED <<parse_frame, unicode_data, formal_aliases, cldr_annotations>>

ParseCldrAnnotations ==
    /\ pc = "input"
    /\ cldr_annotations' = Some(parse_cldr_annotations(file_paths.cldr_annotations))
    /\ result_none' = FALSE
    /\ pkg' = "glyph_catcher"
    /\ pc' = "parse_cldr_annotations"
    /\ UNCHANGED <<parse_frame, unicode_data, formal_aliases, informative_aliases>>

\* The parsers of unifill_datafetch: result_none tells that None was returned.
DatafetchParseUnicodeData ==
    /\ pc = "input"
    /\ LET parsed == ud_parse_unicode_data(file_paths.unicode_data)
       IN  unicode_data' = parsed.val /\ result_none' = parsed.isNone
    /\ pkg' = "unifill_datafetch"
    /\ pc' = "parse_unicode_data"
    /\ UNCHANGED <<parse_frame, formal_aliases, informative_aliases, cldr_annotations>>

DatafetchParseNameAliases ==
    /\ pc = "input"
    /\ LET parsed == ud_parse_name_aliases(file_paths.name_aliases)
       IN  formal_aliases' = parsed.val /\ result_none' = parsed.isNone
    /\ pkg' = "unifill_datafetch"
    /\ pc' = "parse_name_aliases"
    /\ UNCHANGED <<parse_frame, unicode_data, informative_aliases, cldr_annotations>>

DatafetchParseNamesList ==
    /\ pc = "input"
    /\ LET parsed == ud_parse_names_list(file_paths.names_list)
       IN  informative_aliases' = parsed.val /\ result_none' = parsed.isNone
    /\ pkg' = "unifill_datafetch"
    /\ pc' = "parse_names_list"
    /\ UNCHANGED <<parse_frame, unicode_data, formal_aliases, cldr_annotations>>

DatafetchParseCldrAnnotations ==
    /\ pc = "input"
    /\ LET parsed == ud_parse_cldr_annotations(file_paths.cldr_annotations)
       IN  cldr_annotations' = parsed /\ result_none' = parsed.isNone
    /\ pkg' = "unifill_datafetch"
    /\ pc' = "parse_cldr_annotations"
    /\ UNCHANGED <<parse_frame, unicode_data, formal_aliases, informative_aliases>>

NextParse ==
    \/ ParseUnicodeData
    \/ ParseNameAliases
    \/ ParseNamesList
    \/ ParseCldrAnnotations
    \/ DatafetchParseUnicodeData
    \/ DatafetchParseNameAliases
    \/ DatafetchParseNamesList
    \/ DatafetchParseCldrAnnotations

SpecParse == InitParse /\ [][NextParse]_vars

(***************************************************************************)
(* Vocabulary of the properties of parse_unicode_data.                     *)
(***************************************************************************)
Fields(line) == split(strip(line), ";")

\* The text is a hexadecimal number in 0..0x10FFFF.
IsHexScalar(text) == IsHex(text) /\ ~ChrOverflows(text) /\ ChrOk(HexValue(text))

IsMarkerLine(line) == Len(Fields(line)) >= 3 /\ IsRangeMarker(Fields(line)[2])

\* A line of at least three fields with a valid code point that is no range
\* marker.
IsRecordLine(line) ==
    Len(Fields(line)) >= 3 /\ IsHexScalar(Fields(line)[1]) /\ ~IsRangeMarker(Fields(line)[2])

\* A line of at least three fields, no range marker, whose code-point field
\* is no hexadecimal number in 0..0x10FFFF.
IsBadCodePointLine(line) ==
    Len(Fields(line)) >= 3 /\ ~IsRangeMarker(Fields(line)[2]) /\ ~IsHexScalar(Fields(line)[1])

RecordLines(lines) == LET Keep(line) == ~IsMarkerLine(line) IN SelectSeq(lines, Keep)

GoodCodePointLines(lines) == LET Keep(line) == ~IsBadCodePointLine(line) IN SelectSeq(lines, Keep)

PrimaryTable == file_paths.unicode_data

ParsedUnicodeData == pc = "parse_unicode_data" /\ PrimaryTable.exists

(***************************************************************************)
(* C12: every primary-table line of at least three fields whose code point *)
(* is valid hexadecimal in 0..0x10FFFF and whose name is no range marker   *)
(* yields one record under its code point, holding the line's name and     *)
(* category, the character chr(code point) and the block                   *)
(* get_unicode_block(code point).  Read for the last line of each code     *)
(* point, a later line replacing the record of an earlier one.  A line     *)
(* whose code point is beyond a C int makes chr raise OverflowError, which *)
(* ends the parse with an empty result, so the records of the well-formed  *)
(* lines are lost.                                                         *)
(***************************************************************************)
C12_RecordOfWellFormedLine ==
    ParsedUnicodeData /\ pkg = "glyph_catcher" =>
        \A i \in 1..Len(PrimaryTable.lines) :
            LET fields == Fields(PrimaryTable.lines[i])
            IN  /\ IsRecordLine(PrimaryTable.lines[i])
                /\ \A j \in (i + 1)..Len(PrimaryTable.lines) :
                       IsRecordLine(PrimaryTable.lines[j]) => Fields(PrimaryTable.lines[j])[1] # fields[1]
                => /\ fields[1] \in DOMAIN unicode_data
                   /\ unicode_data[fields[1]] =
                          [name |-> fields[2], category |-> fields[3],
                           char_obj |-> HexValue(fields[1]),
                           block |-> get_unicode_block(HexValue(fields[1]))]

(***************************************************************************)
(* C13: range markers never produce a record: a line whose name starts     *)
(* with '<' and ends with ', First>' or ', Last>' adds or changes no entry *)
(* of the result, and the other lines are parsed as if the marker lines    *)
(* were absent.                                                            *)
(***************************************************************************)
C13_RangeMarkersAreSkipped ==
    ParsedUnicodeData =>
        /\ pkg = "glyph_catcher" =>
               unicode_data = parse_unicode_data([exists |-> TRUE, lines |-> RecordLines(PrimaryTable.lines)])
        /\ pkg = "unifill_datafetch" =>
               LET parsed == ud_parse_unicode_data([exists |-> TRUE, lines |-> RecordLines(PrimaryTable.lines)])
               IN  unicode_data = parsed.val /\ result_none = parsed.isNone
        /\ \A i \in 1..Len(PrimaryTable.lines) :
               /\ IsMarkerLine(PrimaryTable.lines[i])
               /\ \A j \in 1..Len(PrimaryTable.lines) :
                      Fields(PrimaryTable.lines[j])[1] = Fields(PrimaryTable.lines[i])[1]
                          => IsMarkerLine(PrimaryTable.lines[j])
               => Fields(PrimaryTable.lines[i])[1] \notin DOMAIN unicode_data

\* A file with a marker line between two record lines has been parsed into two
\* records.
C13_Witness ==
    /\ ParsedUnicodeData
    /\ Len(PrimaryTable.lines) = 3
    /\ IsRecordLine(PrimaryTable.lines[1])
    /\ IsMarkerLine(PrimaryTable.lines[2])
    /\ IsRecordLine(PrimaryTable.lines[3])
    /\ Cardinality(DOMAIN unicode_data) = 2

(***************************************************************************)
(* C14: a record whose code-point field is no hexadecimal Unicode scalar   *)
(* (non-hex text, or a value above 0x10FFFF) is skipped and parsing        *)
(* continues: the result equals the result for the file without that line. *)
(* chr raises ValueError up to 0x7FFFFFFF, which is caught per line, and   *)
(* OverflowError beyond, which is caught for the whole file and returns an *)
(* empty result.                                                           *)
(***************************************************************************)
C14_BadCodePointIsSkipped ==
    ParsedUnicodeData /\ pkg = "glyph_catcher" =>
        unicode_data = parse_unicode_data([exists |-> TRUE, lines |-> GoodCodePointLines(PrimaryTable.lines)])

\* The result's type of each parser call: the map a parser of glyph_catcher
\* returned, or whether one of unifill_datafetch returned None.
ParserResult ==
    CASE pc = "parse_unicode_data" -> unicode_data
      [] pc = "parse_name_aliases" -> formal_aliases
      [] pc = "parse_names_list" -> informative_aliases
      [] pc = "parse_cldr_annotations" -> cldr_annotations.val

ParsedFileExists ==
    CASE pc = "parse_unicode_data" -> file_paths.unicode_data.exists
      [] pc = "parse_name_aliases" -> file_paths.name_aliases.exists
      [] pc = "parse_names_list" -> file_paths.names_list.exists
      [] pc = "parse_cldr_annotations" -> file_paths.cldr_annotations.exists

GlyphCatcherExportOptions == {
    [format_type |-> "all", use_master_file |-> TRUE,
     master_file_path |-> [isNone |-> FALSE],
     unicode_blocks |-> [isNone |-> TRUE, list |-> <<>>]],
    [format_type |-> "json", use_master_file |-> FALSE,
     master_file_path |-> [isNone |-> TRUE],
     unicode_blocks |-> [isNone |-> FALSE, list |-> <<"Basic Latin">>]],
    [format_type |-> "csv", use_master_file |-> TRUE,
     master_file_path |-> [isNone |-> FALSE],
     unicode_blocks |-> [isNone |-> FALSE, list |-> <<"Emoticons", "Cyrillic">>]]
}

DatafetchExportOptions == {[format_type |-> "all"], [format_type |-> "json"]}

Returned(outcome, package) ==
    /\ run' = outcome.run
    /\ unicode_data' = outcome.processed.unicode_data
    /\ formal_aliases' = outcome.processed.formal_aliases
    /\ informative_aliases' = outcome.processed.informative_aliases
    /\ cldr_annotations' = outcome.processed.cldr_annotations
    /\ aliases_data' = outcome.processed.aliases_data
    /\ result_none' = outcome.processed.result_none
    /\ disk' = outcome.disk
    /\ master_file_path' = outcome.master_file_path
    /\ pkg' = package
    /\ pc' = "run"
    /\ UNCHANGED <<file_paths, blocks, filtered, loaded, code_point, block, fetch, export, dataset>>

GlyphCatcherProcessUnicodeData ==
    /\ pc = "input"
    /\ \E export_options \in GlyphCatcherExportOptions :
           Returned(gc_process_unicode_data(file_paths, export_options, disk),
                    "glyph_catcher")

DatafetchProcessUnicodeData ==
    /\ pc = "input"
    /\ \E export_options \in DatafetchExportOptions :
           Returned(ud_process_unicode_data(file_paths, export_options, disk),
                    "unifill_datafetch")

NextRun ==
    \/ WriteUnicodeDataLine
    \/ WriteNameAliasesLine
    \/ WriteNamesListLine
    \/ WriteCldrAnnotation
    \/ GlyphCatcherProcessUnicodeData
    \/ DatafetchProcessUnicodeData

SpecRun == Init /\ [][NextRun]_vars

(***************************************************************************)
(* Vocabulary of the runs.                                                 *)
(***************************************************************************)
RunReturned == pc = "run" /\ run.returned

\* What the parsers of glyph_catcher make of the four sources: the reading
\* of "parses to" and "yields" that does not depend on the package that ran.
PrimaryRecords == parse_unicode_data(file_paths.unicode_data)
FormalSource == parse_name_aliases(file_paths.name_aliases)
InformativeSource == parse_names_list(file_paths.names_list)
CldrSource ==
    IF file_paths.cldr_annotations.exists
    THEN parse_cldr_annotations(file_paths.cldr_annotations)
    ELSE EmptyMap

FetchReturnedNoPaths == fetch_all_data_files(file_paths).isEmpty

SomeAliasSourceMissingOrEmpty ==
    \/ FormalSource = EmptyMap
    \/ InformativeSource = EmptyMap
    \/ CldrSource = EmptyMap

(***************************************************************************)
(* C16: a missing or empty alias source is not fatal.  Whenever the        *)
(* primary table parses to a non-empty map and one or more of the formal,  *)
(* informative and CLDR sources is missing or yields an empty mapping,     *)
(* process_data_files and then process_unicode_data still succeed, and the *)
(* result has a record for every code point of the primary table.          *)
(***************************************************************************)
C16_MissingAliasSourceIsNotFatal ==
    /\ RunReturned
    /\ PrimaryRecords # EmptyMap
    /\ SomeAliasSourceMissingOrEmpty
    => /\ ~result_none
       /\ DOMAIN unicode_data = DOMAIN PrimaryRecords
       /\ run.success

(***************************************************************************)
(* C17: a missing or empty primary table fails the whole run before any    *)
(* output.  Whenever fetch_all_data_files returns no paths, or             *)
(* process_data_files returns an empty or None character map,              *)
(* process_unicode_data returns (False, []) and none of                    *)
(* save_master_data_file, export_data and save_source_files is executed:   *)
(* the file at the master path is as it was before the run.                *)
(***************************************************************************)
C17_NoPrimaryTableFailsTheRun ==
    RunReturned /\ (FetchReturnedNoPaths \/ result_none \/ unicode_data = EmptyMap) =>
        /\ ~run.success
        /\ run.output_files = <<>>
        /\ run.executed = {}
        /\ disk = AbsentFile
        /\ master_file_path.isNone

\* All files were fetched and the alias sources have entries, but the primary
\* table has range markers only: the run of glyph_catcher has failed.
C17_Witness ==
    /\ RunReturned
    /\ pkg = "glyph_catcher"
    /\ ~FetchReturnedNoPaths
    /\ file_paths.unicode_data.lines # <<>>
    /\ unicode_data = EmptyMap
    /\ aliases_data # EmptyMap
    /\ run = FailedRun

(***************************************************************************)
(* Vocabulary of the informative aliases: what NamesList.txt says,         *)
(* line by line, without the parser's state.                               *)
(***************************************************************************)
NamesList == file_paths.names_list

ParsedNamesList == pc = "parse_names_list" /\ NamesList.exists

\* A blank line, or a line whose text starts with '@' or ';'.
IsSkippedLine(raw) ==
    \/ strip(raw) = <<>>
    \/ Head(strip(raw)) = "@"
    \/ Head(strip(raw)) = ";"

IsIndentedLine(raw) == raw # <<>> /\ Head(raw) = "\t"

IsUnindentedLine(raw) == ~IsSkippedLine(raw) /\ ~IsIndentedLine(raw)

\* An unindented line that a split on its first tab cuts in two parts.
IsHeaderLine(raw) == IsUnindentedLine(raw) /\ contains(strip(raw), "\t")

FirstTab(text) == CHOOSE k \in 1..Len(text) : text[k] = "\t" /\ \A m \in 1..(k - 1) : text[m] # "\t"

HeaderCodePoint(raw) == upper(strip(SubSeq(strip(raw), 1, FirstTab(strip(raw)) - 1)))

\* The text of an annotation line: the marker removed, the rest trimmed.
AnnotationText(raw) == strip(SubSeq(strip(raw), 2, Len(strip(raw))))

IsAliasLine(raw) == IsIndentedLine(raw) /\ ~IsSkippedLine(raw) /\ Head(strip(raw)) = "="

IsNoteLine(raw) == IsIndentedLine(raw) /\ ~IsSkippedLine(raw) /\ Head(strip(raw)) = "*"

IsAdmittedNote(raw) ==
    /\ IsNoteLine(raw)
    /\ Len(AnnotationText(raw)) <= 49
    /\ ~contains(AnnotationText(raw), "(")
    /\ ~contains(AnnotationText(raw), ")")

IsQualifyingLine(raw) == IsAliasLine(raw) \/ IsAdmittedNote(raw)

\* The nearest unindented line before line i that is not skipped; 0 if none.
GoverningLine(lines, i) ==
    LET before == {j \in 1..(i - 1) : IsUnindentedLine(lines[j])}
    IN  IF before = {} THEN 0 ELSE CHOOSE j \in before : \A k \in before : k <= j

IsAttributed(lines, i) ==
    /\ IsQualifyingLine(lines[i])
    /\ GoverningLine(lines, i) # 0
    /\ IsHeaderLine(lines[GoverningLine(lines, i)])

AttributedCodePoint(lines, i) == HeaderCodePoint(lines[GoverningLine(lines, i)])

AttributedCodePoints(lines) ==
    {AttributedCodePoint(lines, i) : i \in {j \in 1..Len(lines) : IsAttributed(lines, j)}}

\* The texts of the lines attributed to a code point, in file order.
AttributedAliases(lines, cp) ==
    LET Mine(i) == IsAttributed(lines, i) /\ AttributedCodePoint(lines, i) = cp
        mine == SelectSeq([i \in 1..Len(lines) |-> i], Mine)
    IN  [k \in 1..Len(mine) |-> AnnotationText(lines[mine[k]])]

(***************************************************************************)
(* C18: informative-alias attribution.  After any sequence of lines, an    *)
(* alias is in output[cp] if and only if it comes from a qualifying        *)
(* tab-indented '=' or '*' line and the nearest preceding unindented line  *)
(* that is not blank and does not start with '@' or ';' is a header whose  *)
(* first part uppercased is cp: output[cp] lists the texts of exactly      *)
(* these lines.  Hence an unindented line that is no header makes the      *)
(* indented lines after it ignored until the next header, and skipped      *)
(* lines change nothing.                                                   *)
(***************************************************************************)
C18_AliasesFollowTheirHeader ==
    ParsedNamesList =>
        /\ ~result_none
        /\ DOMAIN ParserResult = AttributedCodePoints(NamesList.lines)
        /\ \A cp \in DOMAIN ParserResult :
               ParserResult[cp] = AttributedAliases(NamesList.lines, cp)

\* A header, an unindented line that is no header, a qualifying line: the
\* qualifying line was ignored.
C18_Witness ==
    /\ ParsedNamesList
    /\ Len(NamesList.lines) = 3
    /\ IsHeaderLine(NamesList.lines[1])
    /\ IsUnindentedLine(NamesList.lines[2]) /\ ~IsHeaderLine(NamesList.lines[2])
    /\ IsQualifyingLine(NamesList.lines[3])
    /\ ParserResult = EmptyMap

(***************************************************************************)
(* Vocabulary of the last line of NamesList.txt and of the file before it. *)
(***************************************************************************)
LastLine == NamesList.lines[Len(NamesList.lines)]

\* The code point is active at the last line: its governing line is a header.
LastLineHasActiveCodePoint ==
    /\ GoverningLine(NamesList.lines, Len(NamesList.lines)) # 0
    /\ IsHeaderLine(NamesList.lines[GoverningLine(NamesList.lines, Len(NamesList.lines))])

LastLineCodePoint == AttributedCodePoint(NamesList.lines, Len(NamesList.lines))

\* The output for the file without its last line.
OutputBeforeLastLine ==
    parse_names_list([NamesList EXCEPT !.lines = SubSeq(@, 1, Len(@) - 1)])

NoteUnderActiveCodePoint ==
    /\ ParsedNamesList
    /\ NamesList.lines # <<>>
    /\ IsNoteLine(LastLine)
    /\ LastLineHasActiveCodePoint

(***************************************************************************)
(* C19: the '*' note heuristic.  Under an active code point, an indented   *)
(* line starting with '*' appends its text (marker removed, trimmed) to    *)
(* the list of the code point if and only if the text has fewer than 50    *)
(* characters and contains neither '(' nor ')'; otherwise the output is    *)
(* unchanged.                                                              *)
(***************************************************************************)
C19_NoteHeuristic ==
    NoteUnderActiveCodePoint =>
        IF /\ Len(AnnotationText(LastLine)) < 50
           /\ ~contains(AnnotationText(LastLine), "(")
           /\ ~contains(AnnotationText(LastLine), ")")
        THEN ParserResult = AppendTo(OutputBeforeLastLine, LastLineCodePoint,
                                     AnnotationText(LastLine))
        ELSE ParserResult = OutputBeforeLastLine

\* A note of 49 characters under an active code point was appended.
C19_Witness ==
    /\ NoteUnderActiveCodePoint
    /\ Len(AnnotationText(LastLine)) = 49
    /\ LastLineCodePoint \in DOMAIN ParserResult
    /\ ParserResult[LastLineCodePoint][Len(ParserResult[LastLineCodePoint])]
           = AnnotationText(LastLine)

(***************************************************************************)
(* Vocabulary of the formal aliases: what NameAliases.txt says.            *)
(***************************************************************************)
NameAliases == file_paths.name_aliases

ParsedNameAliases == pc = "parse_name_aliases" /\ NameAliases.exists

\* A line that is not blank, does not start with '#' and has two fields.
IsFormalRecord(raw) ==
    /\ strip(raw) # <<>>
    /\ Head(strip(raw)) # "#"
    /\ Len(Fields(raw)) >= 2

FormalCodePoints(lines) ==
    {Fields(lines[i])[1] : i \in {j \in 1..Len(lines) : IsFormalRecord(lines[j])}}

\* The second fields of the records of a code point, in file order.
FormalAliasesOf(lines, cp) ==
    LET Mine(i) == IsFormalRecord(lines[i]) /\ Fields(lines[i])[1] = cp
        mine == SelectSeq([i \in 1..Len(lines) |-> i], Mine)
    IN  [k \in 1..Len(mine) |-> Fields(lines[mine[k]])[2]]

(***************************************************************************)
(* C20: parse_name_aliases.  For every input, the list stored for a code   *)
(* point is exactly the sequence of second fields, in file order and with  *)
(* casing unchanged, of the lines that are non-blank, do not start with    *)
(* '#' and have at least two ';'-separated fields with that code point as  *)
(* first field; the other lines contribute nothing and do not stop the     *)
(* parsing.                                                                *)
(***************************************************************************)
C20_FormalAliasesInFileOrder ==
    ParsedNameAliases =>
        /\ ~result_none
        /\ DOMAIN ParserResult = FormalCodePoints(NameAliases.lines)
        /\ \A cp \in DOMAIN ParserResult :
               ParserResult[cp] = FormalAliasesOf(NameAliases.lines, cp)

\* Two records of one code point around a line that is no record: both
\* aliases are listed, in file order, and one of them has a capital letter.
C20_Witness ==
    /\ ParsedNameAliases
    /\ Len(NameAliases.lines) = 3
    /\ IsFormalRecord(NameAliases.lines[1])
    /\ ~IsFormalRecord(NameAliases.lines[2])
    /\ IsFormalRecord(NameAliases.lines[3])
    /\ Fields(NameAliases.lines[1])[1] = Fields(NameAliases.lines[3])[1]
    /\ Fields(NameAliases.lines[1])[2] # Fields(NameAliases.lines[3])[2]
    /\ lower(Fields(NameAliases.lines[3])[2]) # Fields(NameAliases.lines[3])[2]
    /\ ParserResult[Fields(NameAliases.lines[1])[1]]
           = <<Fields(NameAliases.lines[1])[2], Fields(NameAliases.lines[3])[2]>>

(***************************************************************************)
(* Vocabulary of the CLDR annotations: what the document says, element by  *)
(* element.                                                                *)
(***************************************************************************)
CldrDocument == file_paths.cldr_annotations

ParsedCldrAnnotations == pc = "parse_cldr_annotations" /\ CldrDocument.exists

\* An element without type attribute, with a cp attribute and with text.
IsQualifyingElement(annotation) ==
    /\ ~annotation.has_type
    /\ annotation.has_cp
    /\ annotation.text # <<>>

\* cp="" on an element without type attribute.
HasEmptyCp(annotation) ==
    ~annotation.has_type /\ annotation.has_cp /\ annotation.cp = <<>>

\* The code point of the first character of cp, as the key of the result.
ElementCodePoint(annotation) == FormatX(Head(annotation.cp))

\* The '|'-separated segments of the text, each trimmed.
ElementSegments(annotation) ==
    LET segments == split(annotation.text, "|")
    IN  [i \in 1..Len(segments) |-> strip(segments[i])]

ContributingElements(annotations) ==
    {i \in 1..Len(annotations) :
        IsQualifyingElement(annotations[i]) /\ annotations[i].cp # <<>>}

AnnotatedCodePoints(annotations) ==
    {ElementCodePoint(annotations[i]) : i \in ContributingElements(annotations)}

\* The segments of the contributing elements of a code point, in document
\* order.
RECURSIVE AnnotationsOf(_, _)
AnnotationsOf(annotations, cp) ==
    IF annotations = <<>> THEN <<>>
    ELSE LET first == Head(annotations)
             mine == /\ IsQualifyingElement(first)
                     /\ first.cp # <<>>
                     /\ ElementCodePoint(first) = cp
         IN  (IF mine THEN ElementSegments(first) ELSE <<>>)
                 \o AnnotationsOf(Tail(annotations), cp)

WithoutEmptyCp(annotations) ==
    LET Keep(annotation) == ~HasEmptyCp(annotation)
    IN  SelectSeq(annotations, Keep)

(***************************************************************************)
(* C21: parse_cldr_annotations.  An annotation element carrying a type     *)
(* attribute contributes nothing; every other element with a cp attribute  *)
(* and text contributes the '|'-separated, trimmed segments of its text,   *)
(* in document order, to the list of the code point of the first character *)
(* of cp; elements without cp contribute nothing.                          *)
(***************************************************************************)
C21_AnnotationsOfQualifyingElements ==
    ParsedCldrAnnotations =>
        /\ ~result_none
        /\ DOMAIN ParserResult = AnnotatedCodePoints(CldrDocument.annotations)
        /\ \A cp \in DOMAIN ParserResult :
               ParserResult[cp] = AnnotationsOf(CldrDocument.annotations, cp)

(***************************************************************************)
(* C26: one malformed CLDR annotation does not abort the file.  When a     *)
(* single annotation element has an empty cp attribute, the parser skips   *)
(* that element and returns the aliases of every other qualifying element  *)
(* of the document, before and after it.                                   *)
(***************************************************************************)
C26_EmptyCpIsSkipped ==
    /\ ParsedCldrAnnotations
    /\ Cardinality({i \in 1..Len(CldrDocument.annotations) :
                        HasEmptyCp(CldrDocument.annotations[i])}) = 1
    => /\ ~result_none
       /\ ParserResult = parse_cldr_annotations(
              [CldrDocument EXCEPT !.annotations = WithoutEmptyCp(@)])

(***************************************************************************)
(* get_unicode_block on every code point of the Unicode range.             *)
(***************************************************************************)
\* 0x10FFFF, the last code point.
MaxCodePoint == 1114111

InitBlock ==
    /\ pc = "input"
    /\ pkg = "none"
    /\ file_paths = NoFiles
    /\ unicode_data = EmptyMap
    /\ formal_aliases = EmptyMap
    /\ informative_aliases = EmptyMap
    /\ cldr_annotations = NoneValue
    /\ aliases_data = EmptyMap
    /\ result_none = FALSE
    /\ blocks = [isNone |-> TRUE, list |-> <<>>]
    /\ filtered = [unicode_data |-> EmptyMap, aliases_data |-> EmptyMap]
    /\ disk = AbsentFile
    /\ master_file_path = [isNone |-> TRUE]
    /\ loaded = NothingLoaded
    /\ run = NoRun
    /\ code_point \in 0..MaxCodePoint
    /\ block = "none"
    /\ fetch = NoFetch
    /\ export = NoExport
    /\ dataset = NoDataset

GetUnicodeBlock ==
    /\ pc = "input"
    /\ block' = get_unicode_block(code_point)
    /\ pc' = "get_unicode_block"
    /\ pkg' = "glyph_catcher"
    /\ UNCHANGED <<file_paths, unicode_data, formal_aliases, informative_aliases,
                   cldr_annotations, aliases_data, result_none, blocks, filtered, disk,
                   master_file_path, loaded, run, code_point, fetch, export, dataset>>

NextBlock == GetUnicodeBlock

SpecBlock == InitBlock /\ [][NextBlock]_vars

\* The intervals of UNICODE_BLOCKS that contain the code point, end excluded.
ContainingIntervals ==
    {i \in 1..Len(UNICODE_BLOCKS) :
        UNICODE_BLOCKS[i].start <= code_point /\ code_point <= UNICODE_BLOCKS[i].end - 1}

(***************************************************************************)
(* C22: get_unicode_block is a total function on 0..0x10FFFF.  No two      *)
(* intervals of UNICODE_BLOCKS contain the same code point; the function   *)
(* returns the name of the one interval [start, end) that contains the     *)
(* code point, and 'Unknown Block' exactly when no interval contains it.   *)
(***************************************************************************)
C22_BlockOfEveryCodePoint ==
    pc = "get_unicode_block" =>
        /\ Cardinality(ContainingIntervals) <= 1
        /\ \A i \in ContainingIntervals : block = UNICODE_BLOCKS[i].name
        /\ (block = "Unknown Block") <=> (ContainingIntervals = {})

\* 0x80 is the excluded end of Basic Latin and the included start of
\* Latin-1 Supplement.
C22_Witness ==
    /\ pc = "get_unicode_block"
    /\ code_point = UNICODE_BLOCKS[1].end
    /\ code_point = UNICODE_BLOCKS[2].start
    /\ block = UNICODE_BLOCKS[2].name

(***************************************************************************)
(* The downloads.  The server starts and stops answering a url, and a      *)
(* cache file can be removed, between two calls.                           *)
(***************************************************************************)
InitFetch ==
    /\ pc = "input"
    /\ pkg = "none"
    /\ file_paths = NoFiles
    /\ unicode_data = EmptyMap
    /\ formal_aliases = EmptyMap
    /\ informative_aliases = EmptyMap
    /\ cldr_annotations = NoneValue
    /\ aliases_data = EmptyMap
    /\ result_none = FALSE
    /\ blocks = [isNone |-> TRUE, list |-> <<>>]
    /\ filtered = [unicode_data |-> EmptyMap, aliases_data |-> EmptyMap]
    /\ disk = AbsentFile
    /\ master_file_path = [isNone |-> TRUE]
    /\ loaded = NothingLoaded
    /\ run = NoRun
    /\ code_point = 0
    /\ block = "none"
    /\ \E server \in SUBSET Urls : fetch = [NoFetch EXCEPT !.server = server]
    /\ export = NoExport
    /\ dataset = NoDataset

fetch_frame ==
    <<pc, pkg, file_paths, unicode_data, formal_aliases, informative_aliases,
      cldr_annotations, aliases_data, result_none, blocks, filtered, disk,
      master_file_path, loaded, run, code_point, block, export, dataset>>

DownloadFile ==
    /\ \E url \in Urls, options \in FetchOptionsPool :
           LET world == [cache |-> fetch.cache, server |-> fetch.server]
               download == download_file(url, options, world)
           IN  fetch' = [fetch EXCEPT
                            !.cache = download.cache,
                            !.call = [op |-> "download_file", url |-> url,
                                      options |-> options, world |-> world,
                                      result |-> download.result, paths |-> {},
                                      downloads |-> <<url>>,
                                      requests |-> download.requests,
                                      cache |-> download.cache]]
    /\ UNCHANGED fetch_frame

FetchAllDataFiles ==
    /\ \E options \in FetchOptionsPool :
           LET world == [cache |-> fetch.cache, server |-> fetch.server]
               fetched == fetch_all_data_files_steps(options, world)
           IN  fetch' = [fetch EXCEPT
                            !.cache = fetched.cache,
                            !.call = [op |-> "fetch_all_data_files", url |-> "none",
                                      options |-> options, world |-> world,
                                      result |-> NoPath, paths |-> fetched.result,
                                      downloads |-> fetched.downloads,
                                      requests |-> fetched.requests,
                                      cache |-> fetched.cache]]
    /\ UNCHANGED fetch_frame

ServerChanges ==
    /\ \E url \in Urls :
           fetch' = [fetch EXCEPT !.server = IF url \in @ THEN @ \ {url} ELSE @ \union {url}]
    /\ UNCHANGED fetch_frame

CacheFileRemoved ==
    /\ \E url \in fetch.cache : fetch' = [fetch EXCEPT !.cache = @ \ {url}]
    /\ UNCHANGED fetch_frame

NextFetch ==
    \/ DownloadFile
    \/ FetchAllDataFiles
    \/ ServerChanges
    \/ CacheFileRemoved

SpecFetch == InitFetch /\ [][NextFetch]_vars

(***************************************************************************)
(* Vocabulary of the downloads: the last call, with the world it saw.      *)
(***************************************************************************)
LastCall == fetch.call

CacheEnabled(options) == options.use_cache /\ options.has_cache_dir

\* download_file(url) of the last call could return a path: the cache in
\* use holds the file, or the server answers.
Obtainable(url) ==
    \/ url \in LastCall.world.server
    \/ CacheEnabled(LastCall.options) /\ url \in LastCall.world.cache

RequiredKeys == {"unicode_data", "name_aliases", "names_list"}

PathKeys(paths) == {entry[1] : entry \in paths}

(***************************************************************************)
(* C23: fetch_all_data_files downloads in the order primary table, formal  *)
(* aliases, informative aliases, CLDR; it returns an empty dictionary as    *)
(* soon as one of the first three downloads fails, without the later       *)
(* downloads; when only the CLDR download fails it returns the three       *)
(* required paths and no 'cldr_annotations' key.                           *)
(***************************************************************************)
C23_FetchOrderAndFailure ==
    LastCall.op = "fetch_all_data_files" =>
        IF ~Obtainable(UNICODE_DATA_FILE_URL)
        THEN /\ LastCall.paths = {}
             /\ LastCall.downloads = <<UNICODE_DATA_FILE_URL>>
        ELSE IF ~Obtainable(NAME_ALIASES_FILE_URL)
        THEN /\ LastCall.paths = {}
             /\ LastCall.downloads = <<UNICODE_DATA_FILE_URL, NAME_ALIASES_FILE_URL>>
        ELSE IF ~Obtainable(NAMES_LIST_FILE_URL)
        THEN /\ LastCall.paths = {}
             /\ LastCall.downloads = <<UNICODE_DATA_FILE_URL, NAME_ALIASES_FILE_URL,
                                       NAMES_LIST_FILE_URL>>
        ELSE /\ LastCall.downloads = <<UNICODE_DATA_FILE_URL, NAME_ALIASES_FILE_URL,
                                       NAMES_LIST_FILE_URL, CLDR_ANNOTATIONS_URL>>
             /\ \A entry \in LastCall.paths : ~entry[2].isNone
             /\ PathKeys(LastCall.paths) =
                    IF Obtainable(CLDR_ANNOTATIONS_URL)
                    THEN RequiredKeys \union {"cldr_annotations"}
                    ELSE RequiredKeys

\* The download of the formal aliases failed while the two later downloads
\* would have succeeded: they were not made, and {} was returned.
C23_Witness ==
    /\ LastCall.op = "fetch_all_data_files"
    /\ Obtainable(UNICODE_DATA_FILE_URL)
    /\ ~Obtainable(NAME_ALIASES_FILE_URL)
    /\ Obtainable(NAMES_LIST_FILE_URL)
    /\ Obtainable(CLDR_ANNOTATIONS_URL)
    /\ LastCall.paths = {}
    /\ LastCall.downloads = <<UNICODE_DATA_FILE_URL, NAME_ALIASES_FILE_URL>>

CallerCharacterMaps ==
    SnapshotCharacterMaps \cup {parse_unicode_data_lines(EmptyMap, <<UnicodeDataLines[4]>>)}

\* The files at the master path: those of the load, and the valid ones made
\* read-only.
MasterFiles ==
    SnapshotFiles \cup {ReadOnly(file) : file \in {f \in SnapshotFiles : f.state = "valid"}}

\* ExportOptions as any caller of export_data may build them.
ExportOptionsPool ==
    {[format_type |-> IF use THEN "all" ELSE "json", use_master_file |-> use,
      master_file_path |-> [isNone |-> none], unicode_blocks |-> b] :
        use \in BOOLEAN, none \in BOOLEAN, b \in BlockLists}

InitSnapshot ==
    /\ pc = "processed"
    /\ pkg = "glyph_catcher"
    /\ file_paths = NoFiles
    /\ unicode_data \in CallerCharacterMaps
    /\ formal_aliases = EmptyMap
    /\ informative_aliases = EmptyMap
    /\ cldr_annotations = NoneValue
    /\ aliases_data \in SnapshotAliasMaps
    /\ result_none = FALSE
    /\ blocks = [isNone |-> TRUE, list |-> <<>>]
    /\ filtered = [unicode_data |-> EmptyMap, aliases_data |-> EmptyMap]
    /\ disk \in MasterFiles
    /\ master_file_path = [isNone |-> TRUE]
    /\ loaded = NothingLoaded
    /\ run = NoRun
    /\ code_point = 0
    /\ block = "none"
    /\ fetch = NoFetch
    /\ export = NoExport
    /\ dataset = NoDataset

\* export_data writes its files into the output directory: the file at the
\* master path is read only.
ExportData ==
    /\ pc \in {"processed", "saved"} /\ pkg = "glyph_catcher"
    /\ \E options \in ExportOptionsPool :
           \E exported \in {export_data(unicode_data, aliases_data, options, disk)} :
               export' = [called |-> TRUE, options |-> options,
                          output_files |-> exported.output_files,
                          unicode_data |-> exported.unicode_data,
                          aliases_data |-> exported.aliases_data]
    /\ pc' = "exported"
    /\ UNCHANGED <<file_paths, processed_vars, blocks, filtered, disk, master_file_path, loaded, run, code_point, block, fetch, dataset>>

\* The dataset names a caller passes: the two of config.py, one more that a
\* config.yaml may define, and one that no configuration knows.
DatasetNames == {DATASET_EVERYDAY, DATASET_COMPLETE, "latin", "unknown"}

LoadedConfig(datasets) ==
    [yaml_available |-> TRUE, readable |-> TRUE, has_datasets |-> TRUE, datasets |-> datasets]

\* The configurations: PyYAML missing, config.yaml unreadable, a document
\* without 'datasets', and documents that give 'complete' the list ["all"],
\* a list of blocks, or no entry.
DatasetConfigs == {
    NoDataset.config,
    [yaml_available |-> TRUE, readable |-> FALSE, has_datasets |-> FALSE,
     datasets |-> EmptyMap],
    [yaml_available |-> TRUE, readable |-> TRUE, has_datasets |-> FALSE,
     datasets |-> EmptyMap],
    LoadedConfig([name \in {DATASET_EVERYDAY, DATASET_COMPLETE} |->
                     IF name = DATASET_EVERYDAY THEN <<"Basic Latin">> ELSE <<"all">>]),
    LoadedConfig([name \in {DATASET_EVERYDAY, DATASET_COMPLETE} |->
                     IF name = DATASET_EVERYDAY THEN <<"Emoticons", "Cyrillic">>
                     ELSE <<"Basic Latin">>]),
    LoadedConfig([name \in {DATASET_EVERYDAY, DATASET_COMPLETE, "latin"} |->
                     IF name = DATASET_EVERYDAY THEN <<>>
                     ELSE IF name = DATASET_COMPLETE THEN <<>> ELSE <<"Basic Latin">>]),
    LoadedConfig([name \in {DATASET_EVERYDAY} |-> <<"all">>])
}

FilterByDataset ==
    /\ pc = "processed" /\ pkg = "glyph_catcher"
    /\ \E name \in DatasetNames, config \in DatasetConfigs :
           /\ dataset' = [name |-> name, config |-> config]
           /\ filtered' = filter_by_dataset(unicode_data, aliases_data, name, config)
    /\ pc' = "filtered_by_dataset"
    /\ UNCHANGED <<file_paths, processed_vars, blocks, disk, master_file_path, loaded, run, code_point, block, fetch, export>>

NextSnapshot ==
    \/ SaveMasterDataFile
    \/ LoadMasterDataFile
    \/ ExportData
    \/ FilterByDataset

SpecSnapshot == InitSnapshot /\ [][NextSnapshot]_vars

\* The file at the master path is a JSON object that holds both maps: a
\* record of every character with its name, category and display character,
\* and the alias map.
SnapshotHoldsBothMaps ==
    /\ disk.state = "valid"
    /\ HasField(disk.master_data, "unicode_data")
    /\ HasField(disk.master_data, "aliases_data")
    /\ DOMAIN disk.master_data.unicode_data = DOMAIN unicode_data
    /\ \A c \in DOMAIN unicode_data :
           /\ disk.master_data.unicode_data[c].name = unicode_data[c].name
           /\ disk.master_data.unicode_data[c].category = unicode_data[c].category
           /\ disk.master_data.unicode_data[c].char_obj = unicode_data[c].char_obj
    /\ disk.master_data.aliases_data = aliases_data

(***************************************************************************)
(* C29: save_master_data_file refuses empty input without touching the     *)
(* disk.  When the character map is empty or the alias map is empty, even  *)
(* with a non-empty character map, it returns None and the file at the     *)
(* master path is what it was: nothing is created or overwritten.  When it *)
(* returns a path, the file at that path holds both maps.                  *)
(***************************************************************************)
C29_SaveRefusesEmptyInput ==
    [][SaveMasterDataFile =>
           /\ (unicode_data = EmptyMap \/ aliases_data = EmptyMap) =>
                  /\ master_file_path'.isNone
                  /\ disk' = disk
           /\ ~master_file_path'.isNone => SnapshotHoldsBothMaps']_vars

\* A non-empty character map was passed with an empty alias map over an
\* existing snapshot: None was returned and the snapshot is still there.
C29_Witness ==
    /\ pc = "saved"
    /\ unicode_data # EmptyMap
    /\ aliases_data = EmptyMap
    /\ master_file_path.isNone
    /\ disk.state = "valid"
    /\ HasField(disk.master_data, "unicode_data")
    /\ disk.master_data.unicode_data # EmptyMap

\* What export_data has to use: the snapshot when it loads as two non-empty
\* maps, the maps of the caller otherwise.
SnapshotLoadsNonEmpty ==
    /\ ~load_master_data_file(disk).isNone
    /\ load_master_data_file(disk).unicode_data # EmptyMap
    /\ load_master_data_file(disk).aliases_data # EmptyMap

DataToExport ==
    IF SnapshotLoadsNonEmpty
    THEN [unicode_data |-> load_master_data_file(disk).unicode_data,
          aliases_data |-> load_master_data_file(disk).aliases_data]
    ELSE [unicode_data |-> unicode_data, aliases_data |-> aliases_data]

ExportedData == [unicode_data |-> export.unicode_data, aliases_data |-> export.aliases_data]

MasterFileRequested ==
    export.options.use_master_file /\ ~export.options.master_file_path.isNone

(***************************************************************************)
(* C25: snapshot fallback on export.  With use_master_file and a           *)
(* master_file_path, export_data exports the loaded snapshot if and only   *)
(* if load_master_data_file returned two non-empty maps; when the file is  *)
(* missing, is not valid JSON, fails to load or loads with an empty map,   *)
(* it exports the maps passed by the caller; in both cases what is written *)
(* is the data after the unicode_blocks filter.                            *)
(***************************************************************************)
C25_SnapshotFallbackOnExport ==
    pc = "exported" /\ MasterFileRequested =>
        /\ ExportedData = filter_by_unicode_blocks(DataToExport.unicode_data,
                                                   DataToExport.aliases_data,
                                                   export.options.unicode_blocks)
        /\ disk.state \in {"absent", "corrupt", "not_object"} => ~SnapshotLoadsNonEmpty

\* The snapshot has characters and no alias map: the maps of the caller were
\* exported, after the block filter dropped a part of them.
C25_Witness ==
    /\ pc = "exported"
    /\ MasterFileRequested
    /\ disk.state = "valid"
    /\ ~load_master_data_file(disk).isNone
    /\ load_master_data_file(disk).unicode_data # EmptyMap
    /\ load_master_data_file(disk).aliases_data = EmptyMap
    /\ export.options.unicode_blocks.list = <<"Basic Latin">>
    /\ export.unicode_data # EmptyMap
    /\ export.unicode_data # unicode_data
    /\ DOMAIN export.unicode_data \subseteq DOMAIN unicode_data

(***************************************************************************)
(* A sequence of generate runs of glyph_catcher with the master file       *)
(* enabled.  Every run fetches its own source files; the file at the       *)
(* default master path is what the earlier runs and the file system left.  *)
(***************************************************************************)
SourceFiles(characters, formal, informative) ==
    [unicode_data |-> [exists |-> TRUE, lines |-> characters],
     name_aliases |-> [exists |-> TRUE, lines |-> formal],
     names_list |-> [exists |-> TRUE, lines |-> informative],
     has_cldr |-> FALSE,
     cldr_annotations |-> [exists |-> FALSE, annotations |-> <<>>]]

\* The source files a run may fetch: nothing, a Latin letter, an emoji,
\* both, a range marker only, a lone surrogate.
GenerateSources == {
    NoFiles,
    SourceFiles(<<UnicodeDataLines[1]>>, <<NameAliasesLines[1]>>, <<>>),
    SourceFiles(<<UnicodeDataLines[1]>>, <<NameAliasesLines[1]>>, <<NamesListLines[1]>>),
    SourceFiles(<<UnicodeDataLines[2]>>, <<NameAliasesLines[4]>>, <<>>),
    SourceFiles(<<UnicodeDataLines[2]>>, <<NameAliasesLines[1], NameAliasesLines[4]>>, <<>>),
    SourceFiles(<<UnicodeDataLines[1], UnicodeDataLines[2]>>, <<NameAliasesLines[1]>>, <<>>),
    SourceFiles(<<UnicodeDataLines[3]>>, <<NameAliasesLines[4]>>, <<>>),
    SourceFiles(<<UnicodeDataLines[4]>>, <<NameAliasesLines[1]>>, <<>>)
}

\* generate without --no-master-file.
MasterFileExportOptions == {o \in GlyphCatcherExportOptions : o.use_master_file}

InitGenerate ==
    /\ pc = "input"
    /\ pkg = "none"
    /\ file_paths \in GenerateSources
    /\ unicode_data = EmptyMap
    /\ formal_aliases = EmptyMap
    /\ informative_aliases = EmptyMap
    /\ cldr_annotations = NoneValue
    /\ aliases_data = EmptyMap
    /\ result_none = FALSE
    /\ blocks = [isNone |-> TRUE, list |-> <<>>]
    /\ filtered = [unicode_data |-> EmptyMap, aliases_data |-> EmptyMap]
    /\ disk = AbsentFile
    /\ master_file_path = [isNone |-> TRUE]
    /\ loaded = NothingLoaded
    /\ run = NoRun
    /\ code_point = 0
    /\ block = "none"
    /\ fetch = NoFetch
    /\ export = NoExport
    /\ dataset = NoDataset

\* One run: process_unicode_data with the ExportOptions generate built.  A
\* failed save leaves the master path of the options as generate set it.
Generate ==
    /\ pc = "input"
    /\ \E export_options \in MasterFileExportOptions :
           \E outcome \in {gc_process_unicode_data(file_paths, export_options, disk)} :
               /\ run' = outcome.run
               /\ unicode_data' = outcome.processed.unicode_data
               /\ formal_aliases' = outcome.processed.formal_aliases
               /\ informative_aliases' = outcome.processed.informative_aliases
               /\ cldr_annotations' = outcome.processed.cldr_annotations
               /\ aliases_data' = outcome.processed.aliases_data
               /\ result_none' = outcome.processed.result_none
               /\ disk' = outcome.disk
               /\ master_file_path' = outcome.master_file_path
               /\ export' = [called |-> "export_data" \in outcome.run.executed,
                              options |-> export_options,
                              output_files |-> outcome.run.output_files,
                              unicode_data |-> outcome.run.unicode_data,
                              aliases_data |-> outcome.run.aliases_data]
    /\ pkg' = "glyph_catcher"
    /\ pc' = "run"
    /\ UNCHANGED <<file_paths, blocks, filtered, loaded, code_point, block, fetch, dataset>>

\* The process ends; the next one starts with other source files and the
\* same data directory.
NextGenerateRun ==
    /\ pc = "run"
    /\ file_paths' \in GenerateSources
    /\ unicode_data' = EmptyMap
    /\ formal_aliases' = EmptyMap
    /\ informative_aliases' = EmptyMap
    /\ cldr_annotations' = NoneValue
    /\ aliases_data' = EmptyMap
    /\ result_none' = FALSE
    /\ master_file_path' = [isNone |-> TRUE]
    /\ run' = NoRun
    /\ export' = NoExport
    /\ pkg' = "none"
    /\ pc' = "input"
    /\ UNCHANGED <<blocks, filtered, disk, loaded, code_point, block, fetch, dataset>>

\* Between two runs the snapshot loses or regains its write permission.
SnapshotPermissionChanges ==
    /\ pc = "input"
    /\ \/ disk.state = "valid" /\ disk' = ReadOnly(disk)
       \/ disk.state = "read_only" /\ disk' = [disk EXCEPT !.state = "valid"]
    /\ UNCHANGED <<pc, processed_vars, file_paths, blocks, filtered, master_file_path, loaded, run, code_point, block, fetch, export, dataset>>

NextGenerate ==
    \/ Generate
    \/ NextGenerateRun
    \/ SnapshotPermissionChanges

SpecGenerate == InitGenerate /\ [][NextGenerate]_vars

\* The run came to export_data after save_master_data_file returned None.
ExportedAfterFailedSave ==
    /\ pc = "run"
    /\ export.called
    /\ export.options.use_master_file
    /\ master_file_path.isNone

(***************************************************************************)
(* C27: no stale snapshot is exported.  In any sequence of generate runs   *)
(* with the master file enabled, when save_master_data_file returns None   *)
(* in the current run, what export_data writes in that run is the data     *)
(* that run's process_data_files returned (after the block filter of the   *)
(* run), never the snapshot an earlier run left at the default master      *)
(* path.                                                                   *)
(***************************************************************************)
C27_NoStaleSnapshotExported ==
    ExportedAfterFailedSave =>
        ExportedData = filter_by_unicode_blocks(unicode_data, aliases_data,
                                                export.options.unicode_blocks)

(***************************************************************************)
(* Vocabulary of the merge: the key a source alias list is merged under,   *)
(* and the maps the parsers of the package that ran returned.              *)
(***************************************************************************)
\* Every alias of the list has an element of merged[c] with the same
\* normalized form.
KeptUnder(list, c) ==
    /\ c \in DOMAIN aliases_data
    /\ \A i \in 1..Len(list) :
           \E p \in 1..Len(aliases_data[c]) :
               normalize_alias(aliases_data[c][p]) = normalize_alias(list[i])

\* The element has a source alias of c with the same normalized form.
HasSourceAlias(c, e) ==
    \E i \in 1..Len(SourceAliases(c)) :
        normalize_alias(SourceAliases(c)[i]) = normalize_alias(e)

ParserOutput ==
    IF pkg = "glyph_catcher"
    THEN [formal_aliases |-> parse_name_aliases(file_paths.name_aliases),
          informative_aliases |-> parse_names_list(file_paths.names_list),
          cldr_annotations |-> IF file_paths.has_cldr
                               THEN Some(parse_cldr_annotations(file_paths.cldr_annotations))
                               ELSE Some(EmptyMap)]
    ELSE [formal_aliases |-> ud_parse_name_aliases(file_paths.name_aliases).val,
          informative_aliases |-> ud_parse_names_list(file_paths.names_list).val,
          cldr_annotations |-> IF file_paths.has_cldr
                               THEN ud_parse_cldr_annotations(file_paths.cldr_annotations)
                               ELSE NoneValue]

(***************************************************************************)
(* C28: the merge neither loses nor invents aliases.  Every alias a source *)
(* parser produced for a code point has an element with the same           *)
(* trim(lower()) form in the merged list of that code point (the           *)
(* informative key upper-cased), every element of a merged list has a      *)
(* source alias of its code point with the same trim(lower()) form, and    *)
(* the source maps are after the merge what the parsers returned.          *)
(***************************************************************************)
C28_MergeNeitherLosesNorInvents ==
    Processed =>
        /\ \A k \in DOMAIN formal_aliases : KeptUnder(formal_aliases[k], k)
        /\ \A k \in DOMAIN informative_aliases :
               KeptUnder(informative_aliases[k], upper(k))
        /\ \A k \in DOMAIN cldr_annotations.val : KeptUnder(cldr_annotations.val[k], k)
        /\ \A c \in DOMAIN aliases_data :
               \A p \in 1..Len(aliases_data[c]) : HasSourceAlias(c, aliases_data[c][p])
        /\ formal_aliases = ParserOutput.formal_aliases
        /\ informative_aliases = ParserOutput.informative_aliases
        /\ cldr_annotations = ParserOutput.cldr_annotations

\* A code point has aliases of the formal and of the informative source,
\* and its merged list holds them all.
C28_Witness ==
    /\ Processed
    /\ \E c \in DOMAIN aliases_data :
           /\ FormalFor(c) # <<>>
           /\ InformativeFor(c) # <<>>
           /\ Len(aliases_data[c]) = Len(FormalFor(c)) + Len(InformativeFor(c)) + Len(CldrFor(c))

(***************************************************************************)
(* Vocabulary of filter_by_dataset: what the configuration in force says   *)
(* about the dataset.                                                      *)
(***************************************************************************)
\* The datasets in force: the defaults when PyYAML is missing or config.yaml
\* cannot be loaded, the 'datasets' entry of the document otherwise.
ConfiguredDatasets ==
    IF dataset.config.yaml_available /\ dataset.config.readable
    THEN IF dataset.config.has_datasets THEN dataset.config.datasets ELSE EmptyMap
    ELSE [name \in {"every-day", "complete"} |->
             IF name = "every-day" THEN <<>> ELSE <<"all">>]

DatasetIsUnknown == dataset.name \notin DOMAIN ConfiguredDatasets

ConfiguredBlocks == ConfiguredDatasets[dataset.name]

InputMaps == [unicode_data |-> unicode_data, aliases_data |-> aliases_data]

(***************************************************************************)
(* C30: filter_by_dataset returns both input maps unchanged when the       *)
(* dataset name is unknown to the configuration, when its configured block *)
(* list is empty (the default 'every-day' entry when the YAML              *)
(* configuration is unavailable), and when the dataset is 'complete',      *)
(* whatever block list is configured for it; in every other case its       *)
(* result is that of filter_by_unicode_blocks with the configured block    *)
(* list.                                                                   *)
(***************************************************************************)
C30_FilterByDataset ==
    pc = "filtered_by_dataset" =>
        IF DatasetIsUnknown THEN filtered = InputMaps
        ELSE IF ConfiguredBlocks = <<>> THEN filtered = InputMaps
        ELSE IF dataset.name = "complete" THEN filtered = InputMaps
        ELSE filtered = filter_by_unicode_blocks(unicode_data, aliases_data,
                                                 [isNone |-> FALSE, list |-> ConfiguredBlocks])

\* 'complete' is configured with a block list that would drop a character of
\* the input, and the input came back whole.
C30_Witness ==
    /\ pc = "filtered_by_dataset"
    /\ dataset.name = "complete"
    /\ ~DatasetIsUnknown
    /\ ConfiguredBlocks = <<"Basic Latin">>
    /\ \E c \in DOMAIN unicode_data : unicode_data[c].block # "Basic Latin"
    /\ filtered = InputMaps
====
